---- MODULE Spec2Model ----
(***************************************************************************)
(* CosplayRadar lifecycle service: the decision maker (a pure function of  *)
(* a series row and the rules configuration) and the series lifecycle      *)
(* state machine driven by evaluation passes and manual overrides.         *)
(*                                                                         *)
(* Numbers.  Metrics are integers.  Scores, weights, ratios and bonus      *)
(* multipliers are fixed-point hundredths: 50.0 is 5000, 0.3 is 30, 1.2 is *)
(* 120.  round(score, 2) is round-half-even at the second decimal.  Time   *)
(* is counted in whole days.                                               *)
(***************************************************************************)
EXTENDS Integers, Sequences, FiniteSets, TLC

VARIABLES
    config,        \* LifecycleRulesManager.config
    now,           \* the database clock NOW(), in days
    media,         \* table anilist_media: series id -> row
    pc,            \* per evaluation pass: position in run_lifecycle_evaluation
    series_list,   \* per evaluation pass: rows fetched and not yet processed
    series_in,     \* argument of a stand-alone make_lifecycle_decision call
    decision_out,  \* its return value
    manual_ops,    \* number of manual archive/restore requests served
    execution_stats, \* per engine: SeriesLifecycleEngine.execution_stats
    frame,         \* per evaluation pass: the size of the fetched list and the
                   \* decisions list of the running pass
    failures,      \* number of per-series failures that occurred
    interrupted,   \* number of passes stopped in the middle of their batch
    trending_in,   \* arguments of a trending score calculation
    trending_out,  \* the value it returned
    default_config \* LifecycleRulesManager.DEFAULT_CONFIG, the class attribute

vars ==
    <<config, now, media, pc, series_list, series_in, decision_out, manual_ops,
      execution_stats, frame, failures, interrupted, trending_in, trending_out,
      default_config>>

\* SQL NULL / Python None
NULL == -1

\* no trending score calculation requested, none returned
NoTrendingInput == [kind |-> "none"]
NoTrendingResult == [op |-> "none"]

----------------------------------------------------------------------------
\* Bounds of the model

\* number of rows of anilist_media
NumSeries == 1
\* last day the clock reaches
MaxTime == 4
\* periods.grace_period_days of the loaded configuration file
GracePeriodDays == 1
\* periods.cleanup_days of the loaded configuration file
CleanupDays == 1
\* manual archive/restore requests served in one run
MaxManualOps == 1
\* per-series failures (an update that raises) in one run
MaxFailures == 1
\* passes stopped in the middle of their batch in one run
MaxInterrupts == 1

----------------------------------------------------------------------------
\* rules_manager.py

DEFAULT_CONFIG ==
    [periods |-> [grace_period_days |-> 42,
                  extended_grace_days |-> 28,
                  cleanup_days |-> 90],
     thresholds |->
        [keep_active |-> [min_composite_score |-> 5000,
                          min_popularity |-> 30,
                          min_favourites |-> 100,
                          min_character_trending |-> 70],
         extend_grace |-> [min_composite_score_ratio |-> 70]],
     scoring |->
        [weights |-> [popularity |-> 30,
                      favourites |-> 20,
                      trending |-> 20,
                      character_count_multiplier |-> 500,
                      avg_character_trending |-> 20,
                      max_character_trending |-> 10],
         bonus_conditions |->
            [high_character_engagement |-> [bonus_multiplier |-> 120],
             seasonal_relevance |-> [bonus_multiplier |-> 110]]]]

\* the places where DEFAULT_CONFIG holds a dictionary.  The configurations
\* given to the manager keep that shape (a dictionary where the default has
\* one, a number where it has a number; keys the default lacks hold numbers),
\* so both isinstance(.., dict) tests of deep_merge are decided by the place.
DictPaths ==
    {<<"periods">>, <<"thresholds">>, <<"thresholds", "keep_active">>,
     <<"thresholds", "extend_grace">>, <<"scoring">>, <<"scoring", "weights">>,
     <<"scoring", "bonus_conditions">>,
     <<"scoring", "bonus_conditions", "high_character_engagement">>,
     <<"scoring", "bonus_conditions", "seasonal_relevance">>}

\* deep_merge writes into default_dict; the value is default_dict afterwards
RECURSIVE deep_merge(_, _, _)
deep_merge(default_dict, config_dict, path) ==
    [key \in DOMAIN default_dict \cup DOMAIN config_dict |->
        IF key \notin DOMAIN config_dict
        THEN default_dict[key]
        ELSE IF key \in DOMAIN default_dict /\ (path \o <<key>>) \in DictPaths
             THEN deep_merge(default_dict[key], config_dict[key], path \o <<key>>)
             ELSE config_dict[key]]

\* merged is DEFAULT_CONFIG.copy(), a copy of the top level only: its
\* sections are the very dictionaries of the class attribute, and deep_merge
\* writes into them.  class_config is the class attribute before the call;
\* the value is the returned dictionary and the class attribute afterwards.
_merge_with_default(class_config, cfg) ==
    LET merged == deep_merge(class_config, cfg, <<>>)
    IN  [merged |-> merged,
         DEFAULT_CONFIG |->
            [key \in DOMAIN class_config |->
                IF key \in DOMAIN cfg /\ <<key>> \in DictPaths
                THEN merged[key]
                ELSE class_config[key]]]

\* a configuration file: [exists, parses, content]; config_path is "" when
\* none is given.  Every failure ends in DEFAULT_CONFIG.copy().
_load_config(class_config, config_path, file) ==
    IF config_path = ""
    THEN [merged |-> class_config, DEFAULT_CONFIG |-> class_config]
    ELSE IF file.exists /\ file.parses
         THEN _merge_with_default(class_config, file.content)
         ELSE [merged |-> class_config, DEFAULT_CONFIG |-> class_config]

get_grace_period_days == config.periods.grace_period_days

get_cleanup_days == config.periods.cleanup_days

get_thresholds == config.thresholds

get_scoring_weights == config.scoring.weights

get_bonus_conditions == config.scoring.bonus_conditions

----------------------------------------------------------------------------
\* decision_maker.py

\* dict.get(key): None when the row has no such column
Get(row, key) == IF key \in DOMAIN row THEN row[key] ELSE NULL

\* float(series.get(k, 0) or 0)
OrZero(v) == IF v = NULL THEN 0 ELSE v

\* round-half-even of n/d to an integer, n >= 0, d > 0
RoundHalfEven(n, d) ==
    LET q == n \div d
        r == n % d
    IN  IF 2 * r > d THEN q + 1
        ELSE IF 2 * r < d THEN q
        ELSE IF q % 2 = 0 THEN q ELSE q + 1

\* max_character_trending at which the engagement bonus applies
HighCharEngagementMin == 80

\* a series is "current season" when it started within this many days
SeasonWindowDays == 90

_is_current_season(series) ==
    LET start_date == Get(series, "start_date")
    IN  IF start_date = NULL THEN FALSE
        ELSE start_date >= now - SeasonWindowDays

\* the product of the bonus multipliers that apply, in 1/10000
BonusFactor(series) ==
    LET b == get_bonus_conditions
        max_char_trending == OrZero(Get(series, "max_character_trending"))
        m1 == IF max_char_trending >= HighCharEngagementMin
              THEN b.high_character_engagement.bonus_multiplier ELSE 100
        m2 == IF _is_current_season(series)
              THEN b.seasonal_relevance.bonus_multiplier ELSE 100
    IN  m1 * m2

\* the weighted sum before bonuses, in hundredths
WeightedSum(series) ==
    LET w == get_scoring_weights
    IN  OrZero(Get(series, "popularity")) * w.popularity
      + OrZero(Get(series, "favourites")) * w.favourites
      + OrZero(Get(series, "trending")) * w.trending
      + OrZero(Get(series, "character_count")) * w.character_count_multiplier
      + OrZero(Get(series, "avg_character_trending")) * w.avg_character_trending
      + OrZero(Get(series, "max_character_trending")) * w.max_character_trending

\* round(score * bonuses, 2), in hundredths
_calculate_composite_score(series) ==
    RoundHalfEven(WeightedSum(series) * BonusFactor(series), 10000)

\* faulty variant: the keep-active rule asking for all three signals at once
KeepActiveRule_AllSignals(series, composite_score, thresholds) ==
    LET k == thresholds.keep_active
    IN  /\ composite_score >= k.min_composite_score
        /\ OrZero(Get(series, "popularity")) >= k.min_popularity
        /\ OrZero(Get(series, "favourites")) >= k.min_favourites
        /\ OrZero(Get(series, "max_character_trending")) >= k.min_character_trending

\* faulty variant: the keep-active rule on the score alone
KeepActiveRule_ScoreOnly(series, composite_score, thresholds) ==
    composite_score >= thresholds.keep_active.min_composite_score

\* the keep-active rule: score at the threshold and one strong signal
KeepActiveRule(series, composite_score, thresholds) ==
    LET popularity == OrZero(Get(series, "popularity"))
        favourites == OrZero(Get(series, "favourites"))
        max_char_trending == OrZero(Get(series, "max_character_trending"))
        k == thresholds.keep_active
    IN  /\ composite_score >= k.min_composite_score
        /\ \/ popularity >= k.min_popularity
           \/ favourites >= k.min_favourites
           \/ max_char_trending >= k.min_character_trending

\* faulty variant: the extend-grace rule without the activity test
ExtendGraceRule_NoActivity(series, composite_score, thresholds) ==
    composite_score * 100 >=
        thresholds.keep_active.min_composite_score
            * thresholds.extend_grace.min_composite_score_ratio

\* the extend-grace rule: score at threshold * ratio and some activity
ExtendGraceRule(series, composite_score, thresholds) ==
    LET popularity == OrZero(Get(series, "popularity"))
        trending == OrZero(Get(series, "trending"))
        max_char_trending == OrZero(Get(series, "max_character_trending"))
        character_count == OrZero(Get(series, "character_count"))
        keep_active_threshold == thresholds.keep_active.min_composite_score
        extend_grace_ratio == thresholds.extend_grace.min_composite_score_ratio
    IN  /\ composite_score * 100 >= keep_active_threshold * extend_grace_ratio
        /\ \/ popularity > 0
           \/ trending > 0
           \/ character_count > 0
           \/ max_char_trending > 0

_evaluate_decision(series, composite_score, thresholds) ==
    IF KeepActiveRule(series, composite_score, thresholds) THEN "KEEP_ACTIVE"
    ELSE IF ExtendGraceRule(series, composite_score, thresholds) THEN "EXTEND_GRACE"
    ELSE "ARCHIVE"

make_lifecycle_decision(series) ==
    LET composite_score == _calculate_composite_score(series)
    IN  [action |-> _evaluate_decision(series, composite_score, get_thresholds),
         composite_score |-> composite_score]

----------------------------------------------------------------------------
\* lifecycle_engine.py: LifecycleStage

UPCOMING == "upcoming"
GRACE_PERIOD == "grace_period"
EXTENDED_GRACE == "extended_grace"
ACTIVE_TRACKING == "active_tracking"
ARCHIVED == "archived"
READY_FOR_DELETION == "ready_for_deletion"

LifecycleStage ==
    {UPCOMING, GRACE_PERIOD, EXTENDED_GRACE, ACTIVE_TRACKING, ARCHIVED,
     READY_FOR_DELETION}

Series == 1..NumSeries

\* the scheduler process and the API process each build their own engine
Engines == {"scheduler", "api"}

\* the scheduler's pass and the pass started by POST /evaluate
Passes == {"scheduler", "api"}

\* the passes of the API process: the one started by POST /evaluate and the
\* one started by a POST /evaluate that arrives while that one is running
ApiTasks == {"api", "api_overlap"}

\* every task that runs run_lifecycle_evaluation
Tasks == Passes \cup ApiTasks

EngineOf(p) == IF p = "scheduler" THEN "scheduler" ELSE "api"

----------------------------------------------------------------------------
\* lifecycle_repository.py

\* faulty variant: only entering grace_period restarts the grace window
update_series_lifecycle_stage_KeepGraceStart(table, series_id, stage, evaluation_score, notes) ==
    IF series_id \notin DOMAIN table THEN table
    ELSE [table EXCEPT ![series_id] =
            [@ EXCEPT
                !.lifecycle_stage = stage,
                !.last_evaluation_at = now,
                !.evaluation_score =
                    IF evaluation_score # NULL THEN evaluation_score ELSE @,
                !.lifecycle_notes = IF notes # <<>> THEN notes ELSE @,
                !.grace_period_start = IF stage = GRACE_PERIOD THEN now ELSE @,
                !.archived_at = IF stage = ARCHIVED THEN now ELSE @]]

\* UPDATE anilist_media SET ... WHERE id = series_id
update_series_lifecycle_stage(table, series_id, stage, evaluation_score, notes) ==
    IF series_id \notin DOMAIN table THEN table
    ELSE [table EXCEPT ![series_id] =
            [@ EXCEPT
                !.lifecycle_stage = stage,
                !.last_evaluation_at = now,
                !.evaluation_score =
                    IF evaluation_score # NULL THEN evaluation_score ELSE @,
                !.lifecycle_notes = IF notes # <<>> THEN notes ELSE @,
                !.grace_period_start =
                    IF stage \in {GRACE_PERIOD, EXTENDED_GRACE} THEN now ELSE @,
                !.archived_at = IF stage = ARCHIVED THEN now ELSE @]]

\* faulty variant: the query of the legacy manager, which leaves out
\* extended_grace
GraceExpired_GracePeriodOnly(row, grace_days) ==
    /\ row.lifecycle_stage = GRACE_PERIOD
    /\ row.grace_period_start # NULL
    /\ row.grace_period_start < now - grace_days

\* faulty variant: rows in extended_grace wait for extended_grace_days
GraceExpired_ExtendedWindow(row, grace_days) ==
    /\ row.lifecycle_stage \in {GRACE_PERIOD, EXTENDED_GRACE}
    /\ row.grace_period_start # NULL
    /\ row.grace_period_start <
            now - (IF row.lifecycle_stage = EXTENDED_GRACE
                   THEN config.periods.extended_grace_days
                   ELSE grace_days)

\* the WHERE clause of get_expired_grace_period_series
GraceExpired(row, grace_days) ==
    /\ row.lifecycle_stage \in {GRACE_PERIOD, EXTENDED_GRACE}
    /\ row.grace_period_start # NULL
    /\ row.grace_period_start < now - grace_days

\* the columns of a fetched row that the engine reads afterwards
GraceRow(table, s) ==
    [id |-> s,
     lifecycle_stage |-> table[s].lifecycle_stage,
     popularity |-> table[s].popularity,
     favourites |-> table[s].favourites,
     trending |-> table[s].trending,
     character_count |-> table[s].character_count,
     avg_character_trending |-> table[s].avg_character_trending,
     max_character_trending |-> table[s].max_character_trending]

\* the sequences listing the set S once each, ORDER BY grace_period_start ASC
\* (rows with equal keys come in any order)
OrderedByGraceStart(table, S) ==
    {q \in [1..Cardinality(S) -> S] :
        /\ \A i, j \in DOMAIN q : i # j => q[i] # q[j]
        /\ \A i, j \in DOMAIN q :
             i < j => table[q[i]].grace_period_start <= table[q[j]].grace_period_start}

get_expired_grace_period_series(table, grace_days) ==
    LET S == {s \in DOMAIN table : GraceExpired(table[s], grace_days)}
    IN  {[i \in DOMAIN q |-> GraceRow(table, q[i])] : q \in OrderedByGraceStart(table, S)}

\* the WHERE clause of get_series_requiring_status_update
RequiresStatusUpdate(row) ==
    \/ row.status = "NOT_YET_RELEASED" /\ row.lifecycle_stage = UPCOMING
    \/ row.last_evaluation_at = NULL
    \/ row.last_evaluation_at < now - 7
    \/ row.lifecycle_stage \in {GRACE_PERIOD, EXTENDED_GRACE}

\* the columns get_series_requiring_status_update selects
StatusRow(table, s) ==
    [id |-> s, status |-> table[s].status, lifecycle_stage |-> table[s].lifecycle_stage]

get_series_requiring_status_update(table) ==
    {StatusRow(table, s) : s \in {t \in DOMAIN table : RequiresStatusUpdate(table[t])}}

\* faulty variant: the retention window with an inclusive boundary
CleanupDue_Inclusive(row, days_threshold) ==
    /\ row.lifecycle_stage = ARCHIVED
    /\ row.archived_at # NULL
    /\ row.archived_at <= now - days_threshold

\* the WHERE clause of cleanup_old_archived_series
CleanupDue(row, days_threshold) ==
    /\ row.lifecycle_stage = ARCHIVED
    /\ row.archived_at # NULL
    /\ row.archived_at < now - days_threshold

cleanup_old_archived_series(table, days_threshold) ==
    [s \in DOMAIN table |->
        IF CleanupDue(table[s], days_threshold)
        THEN [table[s] EXCEPT !.lifecycle_stage = READY_FOR_DELETION,
                              !.lifecycle_notes =
                                  @ \o <<"; Auto-marked for deletion">>]
        ELSE table[s]]

----------------------------------------------------------------------------
\* update_lifecycle_schema.py: the rows of anilist_media once the lifecycle
\* columns have been initialised from the release status

\* metrics of a series and of its characters (character_count,
\* avg_character_trending and max_character_trending come from the join):
\* a popular series, a moderate one and one without any activity
Popular ==
    [popularity |-> 100, favourites |-> 200, trending |-> 50,
     character_count |-> 2, avg_character_trending |-> 40,
     max_character_trending |-> 75]
Moderate ==
    [popularity |-> 20, favourites |-> 50, trending |-> 50,
     character_count |-> 2, avg_character_trending |-> 30,
     max_character_trending |-> 40]
Inactive ==
    [popularity |-> 0, favourites |-> 0, trending |-> 0,
     character_count |-> 0, avg_character_trending |-> 0,
     max_character_trending |-> 0]

MediaRow(status, stage, grace_start, m) ==
    [status |-> status,
     start_date |-> 0,
     lifecycle_stage |-> stage,
     grace_period_start |-> grace_start,
     archived_at |-> NULL,
     evaluation_score |-> NULL,
     last_evaluation_at |-> 0,
     lifecycle_notes |-> <<>>,
     popularity |-> m.popularity,
     favourites |-> m.favourites,
     trending |-> m.trending,
     character_count |-> m.character_count,
     avg_character_trending |-> m.avg_character_trending,
     max_character_trending |-> m.max_character_trending]

\* NOT_YET_RELEASED rows start as upcoming, recently started RELEASING rows
\* in grace_period with grace_period_start = start_date, older RELEASING
\* rows in active_tracking
InitialRows ==
    {MediaRow("RELEASING", GRACE_PERIOD, 0, m) : m \in {Popular, Moderate, Inactive}}
    \cup {MediaRow("NOT_YET_RELEASED", UPCOMING, NULL, Moderate),
          MediaRow("RELEASING", ACTIVE_TRACKING, NULL, Inactive)}

\* the configuration file of the service: short periods and nothing else
ConfigFile ==
    [exists |-> TRUE, parses |-> TRUE,
     content |-> [periods |-> [grace_period_days |-> GracePeriodDays,
                               extended_grace_days |-> GracePeriodDays + 1,
                               cleanup_days |-> CleanupDays]]]

\* LifecycleRulesManager(CONFIG_PATH): the configuration and the class
\* attribute after construction
StartUp == _load_config(DEFAULT_CONFIG, "lifecycle_config.json", ConfigFile)

\* the configuration file loaded at start-up: short periods, the rest default
LoadedConfig ==
    [DEFAULT_CONFIG EXCEPT !.periods.grace_period_days = GracePeriodDays,
                           !.periods.extended_grace_days = GracePeriodDays + 1,
                           !.periods.cleanup_days = CleanupDays]

NoSeries == [id |-> 0]
NoDecision == [action |-> "NONE", composite_score |-> 0]

----------------------------------------------------------------------------
\* lifecycle_engine.py

\* faulty variant: a grace extension that re-enters grace_period
TargetStage_ExtendToGrace(action) ==
    CASE action = "KEEP_ACTIVE" -> ACTIVE_TRACKING
      [] action = "EXTEND_GRACE" -> GRACE_PERIOD
      [] action = "ARCHIVE" -> ARCHIVED

\* the stage a verdict leads to
TargetStage(action) ==
    CASE action = "KEEP_ACTIVE" -> ACTIVE_TRACKING
      [] action = "EXTEND_GRACE" -> EXTENDED_GRACE
      [] action = "ARCHIVE" -> ARCHIVED

_apply_decision(table, series, decision) ==
    IF decision.action \in {"KEEP_ACTIVE", "EXTEND_GRACE", "ARCHIVE"}
    THEN update_series_lifecycle_stage(table, series.id, TargetStage(decision.action),
                                       decision.composite_score,
                                       <<"reason: ", decision.action>>)
    ELSE table

\* the rows of _update_series_status that pass its release test
StatusTransitions(rows) ==
    {r \in rows :
        /\ r.status = "NOT_YET_RELEASED"
        /\ Get(r, "start_date") # NULL
        /\ Get(r, "start_date") <= now}

RECURSIVE UpdateAll(_, _)
\* the loop of _update_series_status over the rows to move
UpdateAll(table, rows) ==
    IF rows = {} THEN table
    ELSE LET r == CHOOSE x \in rows : TRUE
         IN  UpdateAll(update_series_lifecycle_stage(table, r.id, GRACE_PERIOD, NULL,
                            <<"Auto-transition: NOT_YET_RELEASED -> RELEASING">>),
                       rows \ {r})

\* execution_stats of a new engine, and as reset when a pass starts
InitialStats ==
    [series_evaluated |-> 0, decisions_made |-> 0,
     archived_count |-> 0, kept_active_count |-> 0, errors |-> <<>>]

NoFrame == [evaluated_series |-> 0, decisions |-> <<>>]

\* execution_stats after one more decision has been applied
CountDecision(stats, action) ==
    [stats EXCEPT
        !.series_evaluated = @ + 1,
        !.decisions_made = @ + 1,
        !.archived_count = IF action = "ARCHIVE" THEN @ + 1 ELSE @,
        !.kept_active_count = IF action = "KEEP_ACTIVE" THEN @ + 1 ELSE @]

\* the report run_lifecycle_evaluation returns when its cleanup marked
\* `cleaned' rows
Report(stats, fr, cleaned) ==
    [success |-> TRUE,
     series_evaluated |-> stats.series_evaluated,
     decisions_made |-> stats.decisions_made,
     archived_count |-> stats.archived_count,
     kept_active_count |-> stats.kept_active_count,
     grace_period_results |->
        [evaluated_series |-> fr.evaluated_series, decisions |-> fr.decisions],
     cleanup_results |-> [cleaned_series |-> cleaned],
     errors |-> stats.errors]

Init ==
    /\ config = LoadedConfig
    /\ now = 0
    /\ media \in [Series -> InitialRows]
    /\ pc = [p \in Tasks |-> "idle"]
    /\ series_list = [p \in Tasks |-> <<>>]
    /\ series_in = NoSeries
    /\ decision_out = NoDecision
    /\ manual_ops = 0
    /\ execution_stats = [e \in Engines |-> InitialStats]
    /\ frame = [p \in Tasks |-> NoFrame]
    /\ failures = 0
    /\ interrupted = 0
    /\ trending_in = NoTrendingInput
    /\ trending_out = NoTrendingResult
    /\ default_config = StartUp.DEFAULT_CONFIG

\* the database clock advances
Tick ==
    /\ now < MaxTime
    /\ now' = now + 1
    /\ UNCHANGED <<trending_in, trending_out, default_config, config, media, pc, series_list, series_in, decision_out, manual_ops,
                   execution_stats, frame, failures, interrupted>>

\* run_lifecycle_evaluation is entered: the statistics of the engine are reset
PassStart(p) ==
    /\ pc[p] = "idle"
    /\ p = "api_overlap" => pc["api"] # "idle"
    /\ pc' = [pc EXCEPT ![p] = "update_status"]
    /\ execution_stats' = [execution_stats EXCEPT ![EngineOf(p)] = InitialStats]
    /\ frame' = [frame EXCEPT ![p] = NoFrame]
    /\ UNCHANGED <<trending_in, trending_out, default_config, config, now, media, series_list, series_in, decision_out, manual_ops,
                   failures, interrupted>>

\* step 1: _update_series_status
PassUpdateStatus(p) ==
    /\ pc[p] = "update_status"
    /\ media' = UpdateAll(media, StatusTransitions(get_series_requiring_status_update(media)))
    /\ pc' = [pc EXCEPT ![p] = "fetch_grace"]
    /\ UNCHANGED <<trending_in, trending_out, default_config, config, now, series_list, series_in, decision_out, manual_ops,
                   execution_stats, frame, failures, interrupted>>

\* step 2, the query of _evaluate_grace_period_series
PassFetchGrace(p) ==
    /\ pc[p] = "fetch_grace"
    /\ \E rows \in get_expired_grace_period_series(media, get_grace_period_days) :
          /\ series_list' = [series_list EXCEPT ![p] = rows]
          /\ frame' = [frame EXCEPT ![p].evaluated_series = Len(rows),
                                    ![p].decisions = <<>>]
          /\ pc' = [pc EXCEPT ![p] = IF rows = <<>> THEN "cleanup" ELSE "evaluate"]
    /\ UNCHANGED <<trending_in, trending_out, default_config, config, now, media, series_in, decision_out, manual_ops,
                   execution_stats, failures, interrupted>>

\* step 2, one turn of the loop of _evaluate_grace_period_series
PassEvaluate(p) ==
    /\ pc[p] = "evaluate"
    /\ series_list[p] # <<>>
    /\ LET series == Head(series_list[p])
           decision == make_lifecycle_decision(series)
       IN  /\ media' = _apply_decision(media, series, decision)
           /\ frame' = [frame EXCEPT ![p].decisions =
                           Append(@, [series_id |-> series.id,
                                      decision |-> decision.action,
                                      score |-> decision.composite_score])]
           /\ execution_stats' =
                 [execution_stats EXCEPT ![EngineOf(p)] = CountDecision(@, decision.action)]
    /\ series_list' = [series_list EXCEPT ![p] = Tail(@)]
    /\ pc' = [pc EXCEPT ![p] = IF Tail(series_list[p]) = <<>> THEN "cleanup" ELSE "evaluate"]
    /\ UNCHANGED <<trending_in, trending_out, default_config, config, now, series_in, decision_out, manual_ops,
                   failures, interrupted>>

\* step 2, a turn of the loop in which deciding or updating raises: the error
\* is appended to the statistics and the loop goes on
PassEvaluateError(p) ==
    /\ pc[p] = "evaluate"
    /\ series_list[p] # <<>>
    /\ failures < MaxFailures
    /\ failures' = failures + 1
    /\ execution_stats' =
          [execution_stats EXCEPT ![EngineOf(p)].errors = Append(@, Head(series_list[p]).id)]
    /\ series_list' = [series_list EXCEPT ![p] = Tail(@)]
    /\ pc' = [pc EXCEPT ![p] = IF Tail(series_list[p]) = <<>> THEN "cleanup" ELSE "evaluate"]
    /\ UNCHANGED <<trending_in, trending_out, default_config, config, now, media, series_in, decision_out, manual_ops,
                   frame, interrupted>>

\* step 3: _cleanup_old_series, after which the pass returns its report
PassCleanup(p) ==
    /\ pc[p] = "cleanup"
    /\ media' = cleanup_old_archived_series(media, get_cleanup_days)
    /\ frame' = [frame EXCEPT ![p] = NoFrame]
    /\ pc' = [pc EXCEPT ![p] = "idle"]
    /\ UNCHANGED <<trending_in, trending_out, default_config, config, now, series_list, series_in, decision_out, manual_ops,
                   execution_stats, failures, interrupted>>

\* the task running the pass is cancelled: what is left of the pass is skipped
PassCancel(p) ==
    /\ pc[p] # "idle"
    /\ series_list[p] # <<>> => interrupted < MaxInterrupts
    /\ interrupted' = IF series_list[p] # <<>> THEN interrupted + 1 ELSE interrupted
    /\ pc' = [pc EXCEPT ![p] = "idle"]
    /\ series_list' = [series_list EXCEPT ![p] = <<>>]
    /\ frame' = [frame EXCEPT ![p] = NoFrame]
    /\ UNCHANGED <<trending_in, trending_out, default_config, config, now, media, series_in, decision_out, manual_ops,
                   execution_stats, failures>>

RECURSIVE EvaluateAll(_, _)
\* the loop of _evaluate_grace_period_series run to its end without failure
EvaluateAll(table, rows) ==
    IF rows = <<>> THEN table
    ELSE EvaluateAll(_apply_decision(table, Head(rows), make_lifecycle_decision(Head(rows))),
                     Tail(rows))

\* the table after run_lifecycle_evaluation has run on it from start to end,
\* with nothing else writing in between
run_lifecycle_evaluation(table) ==
    LET updated == UpdateAll(table, StatusTransitions(get_series_requiring_status_update(table)))
        rows == CHOOSE q \in get_expired_grace_period_series(updated, get_grace_period_days) : TRUE
    IN  cleanup_old_archived_series(EvaluateAll(updated, rows), get_cleanup_days)

\* POST /archive/{series_id}
force_archive_series(series_id) ==
    /\ manual_ops < MaxManualOps
    /\ media' = update_series_lifecycle_stage(media, series_id, ARCHIVED, NULL,
                                              <<"Manual archive: ">>)
    /\ manual_ops' = manual_ops + 1
    /\ UNCHANGED <<trending_in, trending_out, default_config, config, now, pc, series_list, series_in, decision_out,
                   execution_stats, frame, failures, interrupted>>

\* POST /restore/{series_id}
restore_series(series_id) ==
    /\ manual_ops < MaxManualOps
    /\ media' = update_series_lifecycle_stage(media, series_id, ACTIVE_TRACKING, NULL,
                                              <<"Manual restore: ">>)
    /\ manual_ops' = manual_ops + 1
    /\ UNCHANGED <<trending_in, trending_out, default_config, config, now, pc, series_list, series_in, decision_out,
                   execution_stats, frame, failures, interrupted>>

Next ==
    \/ Tick
    \/ \E p \in Passes : PassStart(p)
    \/ \E p \in Passes : PassUpdateStatus(p)
    \/ \E p \in Passes : PassFetchGrace(p)
    \/ \E p \in Passes : PassEvaluate(p)
    \/ \E p \in Passes : PassCleanup(p)
    \/ \E s \in Series : force_archive_series(s)
    \/ \E s \in Series : restore_series(s)

Spec == Init /\ [][Next]_vars

\* the API process on its own: overlapping POST /evaluate passes on its one
\* engine, updates that fail, tasks that are cancelled, manual requests
ApiNext ==
    \/ Tick
    \/ \E p \in ApiTasks : PassStart(p)
    \/ \E p \in ApiTasks : PassUpdateStatus(p)
    \/ \E p \in ApiTasks : PassFetchGrace(p)
    \/ \E p \in ApiTasks : PassEvaluate(p)
    \/ \E p \in ApiTasks : PassEvaluateError(p)
    \/ \E p \in ApiTasks : PassCleanup(p)
    \/ \E p \in ApiTasks : PassCancel(p)
    \/ \E s \in Series : force_archive_series(s)
    \/ \E s \in Series : restore_series(s)

ApiSpec == Init /\ [][ApiNext]_vars

----------------------------------------------------------------------------
\* make_lifecycle_decision called on its own, on any row and configuration

PopularityValues == {NULL, 0, 29, 30, 100}
FavouritesValues == {0, 99, 100, 250}
TrendingValues == {0, 50, 250}
\* character_count, avg_character_trending, max_character_trending
CharacterValues == {<<0, 0, 0>>, <<1, 40, 40>>, <<1, 69, 69>>, <<2, 60, 70>>, <<3, 50, 80>>}
\* start_date: absent, older than the season window on day 100, on its first day
StartDateValues == {NULL, 5, 10}

DecisionInputs ==
    {[id |-> 1, popularity |-> p, favourites |-> f, trending |-> t,
      character_count |-> c[1], avg_character_trending |-> c[2],
      max_character_trending |-> c[3], start_date |-> d] :
        p \in PopularityValues, f \in FavouritesValues, t \in TrendingValues,
        c \in CharacterValues, d \in StartDateValues}

\* configurations: the default, a higher favourites bar, a grace ratio above
\* one, a lower score threshold with a higher popularity bar
ConfigChoices ==
    {DEFAULT_CONFIG,
     [DEFAULT_CONFIG EXCEPT !.thresholds.keep_active.min_favourites = 1000],
     [DEFAULT_CONFIG EXCEPT !.thresholds.extend_grace.min_composite_score_ratio = 150],
     [DEFAULT_CONFIG EXCEPT !.thresholds.keep_active.min_composite_score = 2000,
                            !.thresholds.keep_active.min_popularity = 50]}

DecideInit ==
    /\ config \in ConfigChoices
    /\ now = 100
    /\ media = [s \in Series |-> MediaRow("RELEASING", ACTIVE_TRACKING, NULL, Inactive)]
    /\ pc = [p \in Tasks |-> "idle"]
    /\ series_list = [p \in Tasks |-> <<>>]
    /\ series_in \in DecisionInputs
    /\ decision_out = NoDecision
    /\ manual_ops = 0
    /\ execution_stats = [e \in Engines |-> InitialStats]
    /\ frame = [p \in Tasks |-> NoFrame]
    /\ failures = 0
    /\ interrupted = 0
    /\ trending_in = NoTrendingInput
    /\ trending_out = NoTrendingResult
    /\ default_config = config

DecideCall ==
    /\ decision_out = NoDecision
    /\ decision_out' = make_lifecycle_decision(series_in)
    /\ UNCHANGED <<trending_in, trending_out, default_config, config, now, media, pc, series_list, series_in, manual_ops,
                   execution_stats, frame, failures, interrupted>>

DecideNext == DecideCall

DecideSpec == DecideInit /\ [][DecideNext]_vars

----------------------------------------------------------------------------
\* POST /config called any number of times on a running service

\* request.config: one or two settings, nothing, or a key the default lacks
NewConfigs ==
    {[periods |-> [grace_period_days |-> d]] : d \in {7, 14}}
    \cup {[periods |-> [cleanup_days |-> d]] : d \in {30, 60}}
    \cup {[thresholds |-> [keep_active |-> [min_favourites |-> f]]] : f \in {50, 200}}
    \cup {[thresholds |-> [extend_grace |-> [min_composite_score_ratio |-> r]]] : r \in {50, 90}}
    \cup {[scoring |-> [weights |-> [popularity |-> w]]] : w \in {10, 40}}
    \cup {[periods |-> [grace_period_days |-> 7], scoring |-> [weights |-> [trending |-> 30]]],
          [version |-> 2],
          <<>>}

\* a service started with its configuration file, or with no config_path
ConfigInit ==
    /\ \E config_path \in {"", "lifecycle_config.json"} :
          LET loaded == _load_config(DEFAULT_CONFIG, config_path, ConfigFile)
          IN  /\ config = loaded.merged
              /\ default_config = loaded.DEFAULT_CONFIG
    /\ now = 0
    /\ media = [s \in Series |-> MediaRow("RELEASING", ACTIVE_TRACKING, NULL, Inactive)]
    /\ pc = [p \in Tasks |-> "idle"]
    /\ series_list = [p \in Tasks |-> <<>>]
    /\ series_in = NoSeries
    /\ decision_out = NoDecision
    /\ manual_ops = 0
    /\ execution_stats = [e \in Engines |-> InitialStats]
    /\ frame = [p \in Tasks |-> NoFrame]
    /\ failures = 0
    /\ interrupted = 0
    /\ trending_in = NoTrendingInput
    /\ trending_out = NoTrendingResult

\* LifecycleRulesManager.update_config as called by the route
update_config(new_config) ==
    LET updated == _merge_with_default(default_config, new_config)
    IN  /\ config' = updated.merged
        /\ default_config' = updated.DEFAULT_CONFIG
        /\ UNCHANGED <<trending_in, trending_out, now, media, pc, series_list,
                       series_in, decision_out, manual_ops, execution_stats,
                       frame, failures, interrupted>>

UpdateConfig == \E new_config \in NewConfigs : update_config(new_config)

ConfigNext == UpdateConfig

ConfigSpec == ConfigInit /\ [][ConfigNext]_vars

\* the quantities the decision rules speak about, for the call made
Decided == decision_out # NoDecision
InPopularity == OrZero(series_in.popularity)
InFavourites == OrZero(series_in.favourites)
InTrending == OrZero(series_in.trending)
InCharacterCount == OrZero(series_in.character_count)
InMaxCharTrending == OrZero(series_in.max_character_trending)
KeepThreshold == config.thresholds.keep_active.min_composite_score
GraceRatio == config.thresholds.extend_grace.min_composite_score_ratio
StrongSignal ==
    \/ InPopularity >= config.thresholds.keep_active.min_popularity
    \/ InFavourites >= config.thresholds.keep_active.min_favourites
    \/ InMaxCharTrending >= config.thresholds.keep_active.min_character_trending
ActivitySignal ==
    \/ InPopularity > 0
    \/ InTrending > 0
    \/ InCharacterCount > 0
    \/ InMaxCharTrending > 0

\* C1: the decision is KEEP_ACTIVE if and only if the composite score is at
\* least keep_active.min_composite_score and at least one of popularity >=
\* min_popularity, favourites >= min_favourites, max_character_trending >=
\* min_character_trending holds.
C1_KeepActiveIff ==
    Decided =>
        (decision_out.action = "KEEP_ACTIVE"
            <=> (decision_out.composite_score >= KeepThreshold /\ StrongSignal))

\* C1 witness: KEEP_ACTIVE returned on the favourites signal alone
C1_Witness ==
    /\ Decided
    /\ decision_out.action = "KEEP_ACTIVE"
    /\ InPopularity < config.thresholds.keep_active.min_popularity
    /\ InMaxCharTrending < config.thresholds.keep_active.min_character_trending

AtThresholdWeak ==
    /\ Decided
    /\ decision_out.composite_score = KeepThreshold
    /\ ~StrongSignal

\* C3 as stated: in that situation the decision is always EXTEND_GRACE.
C3_Original == AtThresholdWeak => decision_out.action = "EXTEND_GRACE"

\* C3 amended: in that situation the decision is never KEEP_ACTIVE; it is
\* EXTEND_GRACE when the score also reaches threshold * ratio and an activity
\* signal is positive, and ARCHIVE otherwise.
C3_AtThreshold ==
    AtThresholdWeak =>
        /\ decision_out.action # "KEEP_ACTIVE"
        /\ decision_out.action = "EXTEND_GRACE"
             <=> (KeepThreshold * 100 >= KeepThreshold * GraceRatio /\ ActivitySignal)
        /\ decision_out.action = "ARCHIVE"
             <=> ~(KeepThreshold * 100 >= KeepThreshold * GraceRatio /\ ActivitySignal)

\* C3 witness: the situation with an activity signal, decided EXTEND_GRACE
C3_Witness == AtThresholdWeak /\ decision_out.action = "EXTEND_GRACE"

----------------------------------------------------------------------------
\* The lifecycle state machine

\* the scheduler starts passes again and again, a started pass runs to its
\* end, and the clock advances
FairSpec ==
    /\ Spec
    /\ WF_vars(Tick)
    /\ WF_vars(PassStart("scheduler"))
    /\ \A p \in Passes :
          /\ WF_vars(PassUpdateStatus(p))
          /\ WF_vars(PassFetchGrace(p))
          /\ WF_vars(PassEvaluate(p))
          /\ WF_vars(PassCleanup(p))

GraceStages == {GRACE_PERIOD, EXTENDED_GRACE}

\* pass p runs the query of step 2 in this step
FetchStep(p) == pc[p] = "fetch_grace" /\ pc'[p] # "fetch_grace"

\* pass p applies the verdict on the first row of its list in this step
AppliesVerdict(p) ==
    /\ pc[p] = "evaluate"
    /\ series_list[p] # <<>>
    /\ series_list'[p] = Tail(series_list[p])

\* the row that verdict is about, as fetched, and the verdict
Fetched(p) == Head(series_list[p])
Verdict(p) == make_lifecycle_decision(Fetched(p)).action

\* pass p runs the cleanup of step 3 in this step
CleanupStep(p) == pc[p] = "cleanup" /\ pc'[p] = "idle"

\* the verdict the decision maker gives on the current data of series s
CurrentVerdict(s) == make_lifecycle_decision(GraceRow(media, s)).action

\* C4: a verdict applied to a series in grace_period or extended_grace leads
\* to active_tracking for KEEP_ACTIVE, to extended_grace with
\* grace_period_start set to the time of the step for EXTEND_GRACE, to
\* archived with archived_at set to that time for ARCHIVE, and to no other
\* stage.
C4_VerdictTransitions ==
    [][\A p \in Passes :
         (AppliesVerdict(p) /\ media[Fetched(p).id].lifecycle_stage \in GraceStages) =>
            LET new == media'[Fetched(p).id]
            IN  /\ new.lifecycle_stage \in {ACTIVE_TRACKING, EXTENDED_GRACE, ARCHIVED}
                /\ Verdict(p) = "KEEP_ACTIVE" => new.lifecycle_stage = ACTIVE_TRACKING
                /\ Verdict(p) = "EXTEND_GRACE" =>
                      /\ new.lifecycle_stage = EXTENDED_GRACE
                      /\ new.grace_period_start = now
                /\ Verdict(p) = "ARCHIVE" =>
                      /\ new.lifecycle_stage = ARCHIVED
                      /\ new.archived_at = now]_vars

\* C4 witness: a series whose grace period was extended by a verdict on a
\* later day than its first grace period began
C4_Witness ==
    \E s \in Series :
        /\ media[s].lifecycle_stage = EXTENDED_GRACE
        /\ media[s].lifecycle_notes = <<"reason: ", "EXTEND_GRACE">>
        /\ media[s].grace_period_start > GracePeriodDays

\* C5: a pass never applies a verdict to a series in grace_period or
\* extended_grace before the grace window has elapsed since the series'
\* grace_period_start.
C5_Original ==
    [][\A p \in Passes :
         (AppliesVerdict(p) /\ media[Fetched(p).id].lifecycle_stage \in GraceStages) =>
            /\ media[Fetched(p).id].grace_period_start # NULL
            /\ now - media[Fetched(p).id].grace_period_start >= get_grace_period_days]_vars

\* C6: a series in grace_period whose grace_period_start lies exactly one
\* grace window back is selected by the pass.
C6_Original ==
    [][\A p \in Passes : FetchStep(p) =>
         \A s \in Series :
            (/\ media[s].lifecycle_stage = GRACE_PERIOD
             /\ media[s].grace_period_start # NULL
             /\ now - media[s].grace_period_start = get_grace_period_days)
            => \E i \in DOMAIN series_list'[p] : series_list'[p][i].id = s]_vars

\* C7: a verdict is applied only if the stage of the series is still the one
\* observed when the row was fetched; otherwise the row is left as it is.
C7_Original ==
    [][\A p \in Passes :
         (AppliesVerdict(p)
            /\ media[Fetched(p).id].lifecycle_stage # Fetched(p).lifecycle_stage)
         => media'[Fetched(p).id] = media[Fetched(p).id]]_vars

\* C8: a series in ready_for_deletion stays in ready_for_deletion.
C8_Original ==
    [][\A s \in Series :
         media[s].lifecycle_stage = READY_FOR_DELETION
            => media'[s].lifecycle_stage = READY_FOR_DELETION]_vars

\* C9: the cleanup step moves a series to ready_for_deletion if and only if
\* it is archived and now - archived_at exceeds the retention window,
\* whatever its score and metrics, and it leaves every other row unchanged.
C9_CleanupTimeOnly ==
    [][\A p \in Passes : CleanupStep(p) =>
         \A s \in Series :
            IF /\ media[s].lifecycle_stage = ARCHIVED
               /\ media[s].archived_at # NULL
               /\ now - media[s].archived_at > get_cleanup_days
            THEN media'[s].lifecycle_stage = READY_FOR_DELETION
            ELSE media'[s] = media[s]]_vars

\* C9 witness: a series marked for deletion by the cleanup
C9_Witness ==
    \E s \in Series :
        /\ media[s].lifecycle_stage = READY_FOR_DELETION
        /\ now - media[s].archived_at > get_cleanup_days

\* C10: a series in active_tracking whose metrics yield ARCHIVE is moved to
\* archived by a later pass.
C10_Original ==
    \A s \in Series :
        (media[s].lifecycle_stage = ACTIVE_TRACKING /\ CurrentVerdict(s) = "ARCHIVE")
            ~> (media[s].lifecycle_stage # ACTIVE_TRACKING)

\* a step taken by an evaluation pass (status update, grace evaluation or
\* cleanup), as opposed to the clock and to the manual requests
PassStep == \E p \in Passes : pc'[p] # pc[p] \/ series_list'[p] # series_list[p]

\* C11: no step of an evaluation pass moves a series from active_tracking to
\* grace_period or extended_grace.
C11_Original ==
    [][PassStep =>
         \A s \in Series :
            media[s].lifecycle_stage = ACTIVE_TRACKING
               => media'[s].lifecycle_stage \notin GraceStages]_vars

\* C12: an upcoming series whose status is NOT_YET_RELEASED and whose start
\* date has been reached is moved to grace_period by a following pass.
C12_Original ==
    \A s \in Series :
        (/\ media[s].lifecycle_stage = UPCOMING
         /\ media[s].status = "NOT_YET_RELEASED"
         /\ media[s].start_date # NULL
         /\ media[s].start_date <= now)
            ~> (media[s].lifecycle_stage = GRACE_PERIOD)

\* C13: no step of an evaluation pass moves a series from archived to
\* active_tracking, whatever manual requests are served in between.
C13_Original ==
    [][PassStep =>
         \A s \in Series :
            media[s].lifecycle_stage = ARCHIVED
               => media'[s].lifecycle_stage # ACTIVE_TRACKING]_vars

\* C14: every step that changes the stage of a series records on its row
\* last_evaluation_at, the time of the step, and an evaluation_score.
C14_Original ==
    [][\A s \in Series :
         media'[s].lifecycle_stage # media[s].lifecycle_stage
            => /\ media'[s].last_evaluation_at = now
               /\ media'[s].evaluation_score # NULL]_vars

\* C15: grace_period_start is written when a series enters a grace stage
\* (a renewed extension included) and at no other time, archived_at when a
\* series enters archived and at no other time.
C15_Original ==
    [][\A s \in Series :
         LET old == media[s]
             new == media'[s]
         IN  /\ (new.lifecycle_stage \in GraceStages
                   /\ new.lifecycle_stage # old.lifecycle_stage)
                  => new.grace_period_start = now
             /\ new.grace_period_start # old.grace_period_start
                  => (new.lifecycle_stage \in GraceStages /\ new.grace_period_start = now)
             /\ (new.lifecycle_stage = ARCHIVED /\ old.lifecycle_stage # ARCHIVED)
                  => new.archived_at = now
             /\ new.archived_at # old.archived_at
                  => (new.lifecycle_stage = ARCHIVED /\ old.lifecycle_stage # ARCHIVED
                        /\ new.archived_at = now)]_vars

\* pass p meets a failure on the first row of its list in this step
ErrorStep(p) ==
    /\ pc[p] = "evaluate"
    /\ failures' = failures + 1
    /\ series_list'[p] # series_list[p]

\* pass p is stopped in the middle of its batch in this step
InterruptStep(p) == pc[p] = "evaluate" /\ pc'[p] = "idle"

\* pass p completes the query of step 2 in this step
SelectStep(p) == pc[p] = "fetch_grace" /\ pc'[p] \in {"evaluate", "cleanup"}

\* the rows of its batch on which pass p met a failure, counted when it returns
FailedInPass(p) == frame[p].evaluated_series - Len(frame[p].decisions)

\* C16: a failure on one series does not stop the loop, which goes on with the
\* rest of the batch, and the pass returns success with one entry in its
\* errors list for each series it failed on.
C16_Original ==
    [][\A p \in Tasks :
         /\ ErrorStep(p) =>
               /\ series_list'[p] = Tail(series_list[p])
               /\ pc'[p] = IF Tail(series_list[p]) = <<>> THEN "cleanup" ELSE "evaluate"
         /\ CleanupStep(p) =>
               LET report == Report(execution_stats[EngineOf(p)], frame[p], 0)
               IN  /\ report.success
                   /\ Len(report.errors) = FailedInPass(p)]_vars

\* series s is in a grace stage and its grace window has elapsed
WindowElapsed(s) ==
    /\ media[s].lifecycle_stage \in GraceStages
    /\ media[s].grace_period_start # NULL
    /\ now - media[s].grace_period_start > get_grace_period_days

\* stage and timestamps of every series in a table
StageAndTimes(table) ==
    [s \in DOMAIN table |->
        <<table[s].lifecycle_stage, table[s].grace_period_start, table[s].archived_at>>]

----------------------------------------------------------------------------
\* trending_config.py: the centralised boost configuration
\*
\* Numbers.  A boost and a limit are fixed-point tenths (1.5 is 15).  The
\* product of the seven boosts is in units of 10^-7, and so are the total
\* multiplier, raw_total and capped_total.  An optional string that is None
\* is the empty string and an optional series name that is None is the
\* empty sequence: the code only tests them for truth, where None and the
\* empty value agree.  A series name is a sequence of characters.

\* limits.min_total_multiplier and limits.max_total_multiplier of the loaded
\* file range over 0, 0.5, .. , MaxLimitStep * 0.5
MaxLimitStep == 3

\* the multiplier 1.0
Neutral == 10

\* a limit, in the unit of a product of seven boosts
ProductUnits(limit) == limit * 1000000

UpperCase ==
    <<"A", "B", "C", "D", "E", "F", "G", "H", "I", "J", "K", "L", "M",
      "N", "O", "P", "Q", "R", "S", "T", "U", "V", "W", "X", "Y", "Z">>
LowerCase ==
    <<"a", "b", "c", "d", "e", "f", "g", "h", "i", "j", "k", "l", "m",
      "n", "o", "p", "q", "r", "s", "t", "u", "v", "w", "x", "y", "z">>

\* str.lower()
Lower(name) ==
    [i \in DOMAIN name |->
        IF \E k \in DOMAIN UpperCase : UpperCase[k] = name[i]
        THEN LowerCase[CHOOSE k \in DOMAIN UpperCase : UpperCase[k] = name[i]]
        ELSE name[i]]

\* keyword in name
Contains(name, keyword) ==
    \E i \in 0..(Len(name) - Len(keyword)) :
        SubSeq(name, i + 1, i + Len(keyword)) = keyword

\* the boost sections of a configuration file
BoostSections ==
    [gender_boosts |-> [Female |-> 14, Male |-> 10, null |-> 9],
     popularity_boosts |->
        [tiers |-> <<[min_favourites |-> 10000, boost |-> 11],
                     [min_favourites |-> 30000, boost |-> 12]>>],
     status_boosts |-> [RELEASING |-> [boost |-> 12], FINISHED |-> [boost |-> 9]],
     recency_boosts |->
        [current_year |-> 2025,
         tiers |-> <<[max_years_ago |-> 1, boost |-> 13],
                     [max_years_ago |-> 5, boost |-> 11]>>],
     format_boosts |-> [TV |-> [boost |-> 11]],
     role_boosts |-> [MAIN |-> [boost |-> 12], BACKGROUND |-> [boost |-> 8]],
     series_keywords_boosts |->
        [trending_keywords |->
            <<[keywords |-> {<<"o", "n", "e">>, <<"j", "j", "k">>}, boost |-> 15]>>,
         default_boost |-> 10]]

\* TrendingConfig._config: the boost sections and the limits section
LoadedTrendingConfig(limits) ==
    [boosts |-> BoostSections, limits |-> limits]

get_gender_boost(cfg, gender) ==
    LET gender_key == IF gender # "" THEN gender ELSE "null"
    IN  IF gender_key \in DOMAIN cfg.boosts.gender_boosts
        THEN cfg.boosts.gender_boosts[gender_key]
        ELSE Neutral

\* the first tier of the list sorted by min_favourites descending (a stable
\* sort) that the favourites reach
get_popularity_boost(cfg, favourites) ==
    LET tiers == cfg.boosts.popularity_boosts.tiers
        reached == {i \in DOMAIN tiers : favourites >= tiers[i].min_favourites}
        first == CHOOSE i \in reached :
                    \A j \in reached :
                        \/ tiers[j].min_favourites < tiers[i].min_favourites
                        \/ tiers[j].min_favourites = tiers[i].min_favourites /\ i <= j
    IN  IF reached = {} THEN Neutral ELSE tiers[first].boost

get_status_boost(cfg, status) ==
    IF status \in DOMAIN cfg.boosts.status_boosts
    THEN cfg.boosts.status_boosts[status].boost
    ELSE Neutral

get_recency_boost(cfg, season_year) ==
    IF season_year = NULL \/ season_year = 0
    THEN Neutral
    ELSE LET years_ago == cfg.boosts.recency_boosts.current_year - season_year
             tiers == cfg.boosts.recency_boosts.tiers
             matching == {i \in DOMAIN tiers : years_ago <= tiers[i].max_years_ago}
         IN  IF matching = {} THEN Neutral
             ELSE tiers[CHOOSE i \in matching : \A j \in matching : i <= j].boost

get_format_boost(cfg, format) ==
    IF format \in DOMAIN cfg.boosts.format_boosts
    THEN cfg.boosts.format_boosts[format].boost
    ELSE Neutral

get_role_boost(cfg, role) ==
    IF role \in DOMAIN cfg.boosts.role_boosts
    THEN cfg.boosts.role_boosts[role].boost
    ELSE Neutral

get_series_keywords_boost(cfg, series_name) ==
    IF series_name = <<>>
    THEN Neutral
    ELSE LET series_lower == Lower(series_name)
             trending_keywords == cfg.boosts.series_keywords_boosts.trending_keywords
             matching == {i \in DOMAIN trending_keywords :
                            \E keyword \in trending_keywords[i].keywords :
                                Contains(series_lower, keyword)}
         IN  IF matching = {}
             THEN cfg.boosts.series_keywords_boosts.default_boost
             ELSE trending_keywords[CHOOSE i \in matching : \A j \in matching : i <= j].boost

Min2(a, b) == IF a <= b THEN a ELSE b
Max2(a, b) == IF a >= b THEN a ELSE b

\* faulty variant: the upper limit is not applied
calculate_total_multiplier_NoCap(cfg, in) ==
    LET total ==
            get_gender_boost(cfg, in.gender) * get_popularity_boost(cfg, in.favourites)
            * (IF in.status # "" THEN get_status_boost(cfg, in.status) ELSE Neutral)
            * get_recency_boost(cfg, in.season_year)
            * (IF in.format # "" THEN get_format_boost(cfg, in.format) ELSE Neutral)
            * (IF in.role # "" THEN get_role_boost(cfg, in.role) ELSE Neutral)
            * get_series_keywords_boost(cfg, in.series_name)
    IN  Max2(ProductUnits(cfg.limits.min_total_multiplier), total)

calculate_total_multiplier(cfg, in) ==
    LET gender_boost == get_gender_boost(cfg, in.gender)
        popularity_boost == get_popularity_boost(cfg, in.favourites)
        status_boost == IF in.status # "" THEN get_status_boost(cfg, in.status) ELSE Neutral
        recency_boost == get_recency_boost(cfg, in.season_year)
        format_boost == IF in.format # "" THEN get_format_boost(cfg, in.format) ELSE Neutral
        role_boost == IF in.role # "" THEN get_role_boost(cfg, in.role) ELSE Neutral
        keywords_boost == get_series_keywords_boost(cfg, in.series_name)
        total == gender_boost * popularity_boost * status_boost
                 * recency_boost * format_boost * role_boost * keywords_boost
    IN  Max2(ProductUnits(cfg.limits.min_total_multiplier),
             Min2(total, ProductUnits(cfg.limits.max_total_multiplier)))

\* the seven boosts of the breakdown, in the order the dict holds them
BreakdownKeys ==
    <<"gender_boost", "popularity_boost", "status_boost", "recency_boost",
      "format_boost", "role_boost", "keywords_boost">>

RECURSIVE ProductOf(_, _, _)
\* raw_total *= boost over the first n keys
ProductOf(breakdown, keys, n) ==
    IF n = 0 THEN 1 ELSE ProductOf(breakdown, keys, n - 1) * breakdown[keys[n]]

get_boost_breakdown(cfg, in) ==
    LET breakdown ==
            [gender_boost |-> get_gender_boost(cfg, in.gender),
             popularity_boost |-> get_popularity_boost(cfg, in.favourites),
             status_boost |-> IF in.status # "" THEN get_status_boost(cfg, in.status)
                              ELSE Neutral,
             recency_boost |-> get_recency_boost(cfg, in.season_year),
             format_boost |-> IF in.format # "" THEN get_format_boost(cfg, in.format)
                              ELSE Neutral,
             role_boost |-> IF in.role # "" THEN get_role_boost(cfg, in.role) ELSE Neutral,
             keywords_boost |-> get_series_keywords_boost(cfg, in.series_name)]
        raw_total == ProductOf(breakdown, BreakdownKeys, Len(BreakdownKeys))
    IN  [gender_boost |-> breakdown.gender_boost,
         popularity_boost |-> breakdown.popularity_boost,
         status_boost |-> breakdown.status_boost,
         recency_boost |-> breakdown.recency_boost,
         format_boost |-> breakdown.format_boost,
         role_boost |-> breakdown.role_boost,
         keywords_boost |-> breakdown.keywords_boost,
         raw_total |-> raw_total,
         capped_total |-> Max2(ProductUnits(cfg.limits.min_total_multiplier),
                               Min2(raw_total, ProductUnits(cfg.limits.max_total_multiplier)))]

----------------------------------------------------------------------------
\* Floats of the score calculators
\*
\* A float is the exact fraction n/d in lowest terms with d > 0: products and
\* comparisons are those of the real numbers.

RECURSIVE GCD(_, _)
GCD(a, b) == IF b = 0 THEN a ELSE GCD(b, a % b)

Abs(x) == IF x < 0 THEN 0 - x ELSE x

Rat(n, d) ==
    LET g == GCD(Abs(n), d) IN [n |-> n \div g, d |-> d \div g]

RMul(a, b) ==
    LET g1 == GCD(Abs(a.n), b.d)
        g2 == GCD(Abs(b.n), a.d)
    IN  [n |-> (a.n \div g1) * (b.n \div g2), d |-> (a.d \div g2) * (b.d \div g1)]

RAdd(a, b) == Rat(a.n * b.d + b.n * a.d, a.d * b.d)

RLess(a, b) == a.n * b.d < b.n * a.d

RMin(a, b) == IF RLess(b, a) THEN b ELSE a
RMax(a, b) == IF RLess(a, b) THEN b ELSE a

\* 0.0, 1.0 and 100.0
Zero == Rat(0, 1)
One == Rat(1, 1)
Hundred == Rat(100, 1)

\* 1000 * log10(n) for n in 1..12, rounded to the nearest integer
LogTable == <<0, 301, 477, 602, 699, 778, 845, 903, 954, 1000, 1041, 1079>>

RECURSIVE Log10(_)
\* math.log10 in thousandths: that of the table up to 12 and of every power
\* of ten, above 12 that of n with its last digits dropped
Log10(n) == IF n <= 12 THEN LogTable[n] ELSE 1000 + Log10(n \div 10)

\* an exception raised by a boost function
Raised == [raised |-> TRUE]

\* a field holding a value of a type the arithmetic rejects (a string where
\* a number is expected)
Malformed == NULL - 1

RECURSIVE SumOver(_, _)
\* sum of the numbers f[i], i in the finite set of indexes
SumOver(f, indexes) ==
    IF indexes = {} THEN 0
    ELSE LET i == CHOOSE k \in indexes : TRUE
         IN  f[i] + SumOver(f, indexes \ {i})

----------------------------------------------------------------------------
\* processors/trending_processor.py
\*
\* A character is [character_id, favourites, gender, media_appearances]; a
\* media appearance is [role, season_year, average_score], an absent key
\* being NULL; a related media is [season_year, average_score]; a historical
\* data point is [timestamp, trending_score].

\* TrendingProcessor.__init__: the gender boosts of the configuration
ProcessorConfig == [female_boost |-> Rat(12, 10), male_boost |-> Rat(10, 10)]

Truthy(x) == x # NULL /\ x # 0

MainRoles(character) ==
    Cardinality({i \in DOMAIN character.media_appearances :
                    character.media_appearances[i].role = "MAIN"})

_calculate_base_character_score(character) ==
    LET favourites_score == Log10(Max2(1, character.favourites)) * 10
        media_factor == Min2(5000, Len(character.media_appearances) * 500)
        role_quality == Min2(3000, MainRoles(character) * 800)
        base_score == favourites_score + media_factor + role_quality
    IN  Rat(Max2(1000, base_score), 1000)

_calculate_gender_boost(pcfg, gender) ==
    CASE gender = "FEMALE" -> pcfg.female_boost
      [] gender = "MALE" -> pcfg.male_boost
      [] OTHER -> One

\* the appearances and the related media whose year counts as recent
RecentCount(years, current_year) ==
    Cardinality({i \in DOMAIN years : Truthy(years[i]) /\ current_year - years[i] <= 2})

_calculate_character_recency_boost(character, related_media, current_year) ==
    LET appearance_years ==
            [i \in DOMAIN character.media_appearances |->
                character.media_appearances[i].season_year]
        related_years == [i \in DOMAIN related_media |-> related_media[i].season_year]
        years == appearance_years \o related_years
        recent_media_count == RecentCount(years, current_year)
    IN  IF character.media_appearances = <<>> /\ related_media = <<>> THEN One
        ELSE IF \E i \in DOMAIN years : years[i] = Malformed THEN Raised
        ELSE IF recent_media_count >= 3 THEN Rat(15, 10)
        ELSE IF recent_media_count >= 2 THEN Rat(13, 10)
        ELSE IF recent_media_count >= 1 THEN Rat(11, 10)
        ELSE One

_calculate_character_quality_boost(character, related_media) ==
    LET all == [i \in DOMAIN character.media_appearances |->
                    character.media_appearances[i].average_score]
               \o [i \in DOMAIN related_media |-> related_media[i].average_score]
        scored == {i \in DOMAIN all : Truthy(all[i])}
        total == SumOver(all, scored)
        count == Cardinality(scored)
    IN  IF scored = {} THEN One
        ELSE IF \E i \in scored : all[i] = Malformed THEN Raised
        ELSE IF total >= 85 * count THEN Rat(14, 10)
        ELSE IF total >= 80 * count THEN Rat(12, 10)
        ELSE IF total >= 75 * count THEN Rat(11, 10)
        ELSE IF total >= 70 * count THEN One
        ELSE Rat(9, 10)

\* role_weights.get(role, 0.5), in tenths
RoleWeight(role) ==
    CASE role = "MAIN" -> 10
      [] role = "SUPPORTING" -> 7
      [] role = "BACKGROUND" -> 3
      [] OTHER -> 5

_calculate_role_boost(character) ==
    LET role_scores == [i \in DOMAIN character.media_appearances |->
                            RoleWeight(character.media_appearances[i].role)]
        avg_role_weight ==
            Rat(SumOver(role_scores, DOMAIN role_scores), 10 * Len(role_scores))
        main_roles == Cardinality({i \in DOMAIN role_scores : role_scores[i] >= 10})
        main_role_boost == IF main_roles > 1 THEN Rat(10 + (main_roles - 1), 10) ELSE One
    IN  IF character.media_appearances = <<>> THEN One
        ELSE RMul(avg_role_weight, main_role_boost)

RECURSIVE SortedByTimestamp(_)
\* sorted(historical_data, key=timestamp): a stable sort
SortedByTimestamp(data) ==
    IF data = <<>> THEN <<>>
    ELSE LET first == CHOOSE i \in DOMAIN data :
                        \A j \in DOMAIN data :
                            \/ data[i].timestamp < data[j].timestamp
                            \/ data[i].timestamp = data[j].timestamp /\ i <= j
             rest == [k \in 1..(Len(data) - 1) |-> IF k < first THEN data[k] ELSE data[k + 1]]
         IN  <<data[first]>> \o SortedByTimestamp(rest)

_calculate_historical_momentum(historical_data) ==
    LET sorted_data == SortedByTimestamp(historical_data)
        recent_data == SubSeq(sorted_data, Max2(1, Len(sorted_data) - 2), Len(sorted_data))
        scores == [i \in DOMAIN recent_data |-> recent_data[i].trending_score]
        recent_avg == Rat(scores[Len(scores)] + scores[Len(scores) - 1], 2)
        older_avg == IF Len(scores) > 2
                     THEN Rat(SumOver(scores, 1..(Len(scores) - 2)),
                              Max2(1, Len(scores) - 2))
                     ELSE Rat(scores[1], 1)
    IN  IF Len(historical_data) < 2 THEN One
        ELSE IF RLess(RMul(older_avg, Rat(12, 10)), recent_avg) THEN Rat(13, 10)
        ELSE IF RLess(RMul(older_avg, Rat(11, 10)), recent_avg) THEN Rat(115, 100)
        ELSE IF RLess(recent_avg, RMul(older_avg, Rat(8, 10))) THEN Rat(9, 10)
        ELSE One

_get_average_media_score(media_appearances) ==
    LET scores == [i \in DOMAIN media_appearances |-> media_appearances[i].average_score]
        scored == {i \in DOMAIN scores : Truthy(scores[i])}
    IN  IF scored = {} THEN Zero
        ELSE Rat(SumOver(scores, scored), Cardinality(scored))

_count_recent_media(media_appearances, current_year) ==
    RecentCount([i \in DOMAIN media_appearances |-> media_appearances[i].season_year],
                current_year)

calculate_character_trending_score(pcfg, in) ==
    LET character == in.character
        base_score == _calculate_base_character_score(character)
        gender_boost == _calculate_gender_boost(pcfg, character.gender)
        recency_boost ==
            _calculate_character_recency_boost(character, in.related_media, in.current_year)
        quality_boost == _calculate_character_quality_boost(character, in.related_media)
        role_boost == _calculate_role_boost(character)
        momentum_boost == IF in.historical_data # <<>>
                          THEN _calculate_historical_momentum(in.historical_data)
                          ELSE One
        trending_score ==
            RMul(RMul(RMul(RMul(RMul(base_score, gender_boost), recency_boost),
                           quality_boost), role_boost), momentum_boost)
        normalized_score == RMin(Hundred, RMax(Zero, trending_score))
    IN  IF Raised \in {recency_boost, quality_boost}
        THEN [entity_id |-> character.character_id,
              entity_type |-> "character",
              base_score |-> Zero,
              gender_boost |-> One, recency_boost |-> One, quality_boost |-> One,
              role_boost |-> One, momentum_boost |-> One,
              final_score |-> Zero,
              calculation_details |-> [error |-> TRUE]]
        ELSE [entity_id |-> character.character_id,
              entity_type |-> "character",
              base_score |-> base_score,
              gender_boost |-> gender_boost, recency_boost |-> recency_boost,
              quality_boost |-> quality_boost, role_boost |-> role_boost,
              momentum_boost |-> momentum_boost,
              final_score |-> normalized_score,
              calculation_details |->
                 [error |-> FALSE,
                  favourites |-> character.favourites,
                  gender |-> character.gender,
                  media_count |-> Len(character.media_appearances),
                  main_roles |-> MainRoles(character),
                  avg_media_score |-> _get_average_media_score(character.media_appearances),
                  recent_media_count |->
                     _count_recent_media(character.media_appearances, in.current_year)]]

----------------------------------------------------------------------------
\* trending/calculator.py
\*
\* A character is [id, favourites, gender, last_fetched_at, media_appearances];
\* a media appearance is [character_role, media]; a media is [status,
\* start_date, end_date], a date being a day number, NULL when its year is
\* missing.  The database holds the character's current favourites (NULL when
\* the character has no row) and its favourites history, a sequence of
\* [recorded_at, favourites].  Time is counted in whole days.

\* _get_default_config
DefaultTrendingConfig ==
    [gender_boosts |-> [FEMALE |-> Rat(14, 10), MALE |-> One,
                        NON_BINARY |-> Rat(12, 10), unknown |-> Rat(95, 100)],
     role_boosts |-> [MAIN |-> One, SUPPORTING |-> Rat(13, 10), BACKGROUND |-> Rat(15, 10)],
     series_status_boosts |->
        [RELEASING_NEW |-> Rat(25, 10), RELEASING_CURRENT |-> Rat(18, 10),
         RELEASING_LONG |-> Rat(12, 10), FINISHED_RECENT |-> Rat(15, 10),
         FINISHED_SEMI_RECENT |-> Rat(11, 10), FINISHED_OLD |-> Rat(9, 10),
         NOT_YET_RELEASED |-> Rat(13, 10), CANCELLED |-> Rat(7, 10), HIATUS |-> Rat(7, 10),
         releasing_new_days |-> 30, releasing_current_days |-> 365,
         finished_recent_days |-> 90, finished_semi_recent_days |-> 365],
     growth_calculation |->
        [weight_7_days |-> Rat(5, 10), weight_30_days |-> Rat(3, 10),
         weight_90_days |-> Rat(2, 10),
         max_multiplier |-> Rat(5, 1), min_multiplier |-> Rat(1, 10)],
     recency_factors |->
        [fresh_days |-> 7, recent_days |-> 30, semi_old_days |-> 90,
         fresh_factor |-> One, recent_factor |-> Rat(95, 100),
         semi_old_factor |-> Rat(85, 100), old_factor |-> Rat(7, 10)],
     base_score |-> [log_base |-> 10, multiplier |-> 100, min_favourites |-> 1]]

\* calculate_base_score without the floor of min_favourites
calculate_base_score_NoFloor(cfg, favourites) ==
    LET adjusted_favourites == favourites
    IN  Rat(Log10(adjusted_favourites + 1) * cfg.base_score.multiplier, 1000)

\* math.log10(adjusted_favourites + 1) * multiplier
calculate_base_score(cfg, favourites) ==
    LET adjusted_favourites == Max2(favourites, cfg.base_score.min_favourites)
    IN  Rat(Log10(adjusted_favourites + 1) * cfg.base_score.multiplier, 1000)

_get_current_favourites(db) == db.current_favourites

\* the favourites of the latest history row recorded at or before the date
_get_historical_favourites(db, date_threshold) ==
    LET rows == {i \in DOMAIN db.history : db.history[i].recorded_at <= date_threshold}
        latest == CHOOSE i \in rows :
                    \A j \in rows : db.history[j].recorded_at <= db.history[i].recorded_at
    IN  IF rows = {} THEN NULL ELSE db.history[latest].favourites

\* faulty variant: a look-back point without history counts as full growth
GrowthComponent_MissingAsGrowth(db, current_favourites, days, weight, today) ==
    LET historical_favs == _get_historical_favourites(db, today - days)
    IN  IF Truthy(historical_favs) /\ historical_favs > 0
        THEN RMul(Rat(current_favourites - historical_favs, historical_favs), weight)
        ELSE weight

\* growth_rate * weight of one look-back window
GrowthComponent(db, current_favourites, days, weight, today) ==
    LET historical_favs == _get_historical_favourites(db, today - days)
    IN  IF Truthy(historical_favs) /\ historical_favs > 0
        THEN RMul(Rat(current_favourites - historical_favs, historical_favs), weight)
        ELSE Zero

calculate_growth_multiplier(cfg, db, today) ==
    LET growth_config == cfg.growth_calculation
        current_favourites == _get_current_favourites(db)
        total_growth ==
            RAdd(RAdd(GrowthComponent(db, current_favourites, 7,
                                      growth_config.weight_7_days, today),
                      GrowthComponent(db, current_favourites, 30,
                                      growth_config.weight_30_days, today)),
                 GrowthComponent(db, current_favourites, 90,
                                 growth_config.weight_90_days, today))
        multiplier == RAdd(One, total_growth)
    IN  IF db.fails THEN One
        ELSE IF ~Truthy(current_favourites) THEN One
        ELSE RMax(growth_config.min_multiplier,
                  RMin(growth_config.max_multiplier, multiplier))

_get_releasing_boost(m, scfg, today) ==
    IF m.start_date = NULL THEN scfg.RELEASING_CURRENT
    ELSE LET days_since_start == today - m.start_date
         IN  IF days_since_start <= scfg.releasing_new_days THEN scfg.RELEASING_NEW
             ELSE IF days_since_start <= scfg.releasing_current_days
                  THEN scfg.RELEASING_CURRENT
             ELSE scfg.RELEASING_LONG

_get_finished_boost(m, scfg, today) ==
    IF m.end_date = NULL THEN scfg.FINISHED_SEMI_RECENT
    ELSE LET days_since_end == today - m.end_date
         IN  IF days_since_end <= scfg.finished_recent_days THEN scfg.FINISHED_RECENT
             ELSE IF days_since_end <= scfg.finished_semi_recent_days
                  THEN scfg.FINISHED_SEMI_RECENT
             ELSE scfg.FINISHED_OLD

_get_series_status_boost(cfg, m, today) ==
    LET scfg == cfg.series_status_boosts
    IN  CASE m.status = "RELEASING" -> _get_releasing_boost(m, scfg, today)
          [] m.status = "FINISHED" -> _get_finished_boost(m, scfg, today)
          [] m.status = "NOT_YET_RELEASED" -> scfg.NOT_YET_RELEASED
          [] m.status \in {"CANCELLED", "HIATUS"} ->
                IF m.status \in DOMAIN scfg THEN scfg[m.status] ELSE scfg.CANCELLED
          [] OTHER -> One

\* weights.get(role, 0.5)
_get_role_weight(role) ==
    CASE role = "MAIN" -> One
      [] role = "SUPPORTING" -> Rat(7, 10)
      [] role = "BACKGROUND" -> Rat(3, 10)
      [] OTHER -> Rat(5, 10)

RECURSIVE RSum(_, _)
\* sum of the floats f[1..n]
RSum(f, n) == IF n = 0 THEN Zero ELSE RAdd(RSum(f, n - 1), f[n])

calculate_series_boost(cfg, character, today) ==
    LET appearances == character.media_appearances
        boosts == [i \in DOMAIN appearances |->
                      _get_series_status_boost(cfg, appearances[i].media, today)]
        weights == [i \in DOMAIN appearances |->
                      _get_role_weight(appearances[i].character_role)]
        weighted_sum == RSum([i \in DOMAIN appearances |-> RMul(boosts[i], weights[i])],
                             Len(appearances))
        total_weight == RSum(weights, Len(appearances))
    IN  IF appearances = <<>> THEN One
        ELSE IF RLess(Zero, total_weight)
             THEN RMul(weighted_sum, [n |-> total_weight.d, d |-> total_weight.n])
             ELSE One

\* config.get(gender or "unknown", config["unknown"]): the default is looked
\* up before the call
calculate_gender_boost(cfg, gender) ==
    LET gender_key == IF gender # "" THEN gender ELSE "unknown"
    IN  IF "unknown" \notin DOMAIN cfg.gender_boosts THEN Raised
        ELSE IF gender_key \in DOMAIN cfg.gender_boosts THEN cfg.gender_boosts[gender_key]
        ELSE cfg.gender_boosts["unknown"]

\* config[key] of the role boosts
RoleBoostOf(cfg, key) ==
    IF key \in DOMAIN cfg.role_boosts THEN cfg.role_boosts[key] ELSE Raised

calculate_role_boost(cfg, character) ==
    LET roles == {character.media_appearances[i].character_role :
                    i \in DOMAIN character.media_appearances}
    IN  IF character.media_appearances = <<>> THEN One
        ELSE IF "MAIN" \in roles THEN RoleBoostOf(cfg, "MAIN")
        ELSE IF "SUPPORTING" \in roles THEN RoleBoostOf(cfg, "SUPPORTING")
        ELSE RoleBoostOf(cfg, "BACKGROUND")

calculate_recency_factor(cfg, last_fetched_at, today) ==
    IF last_fetched_at = NULL THEN Rat(7, 10)
    ELSE LET rcfg == cfg.recency_factors
             days_old == today - last_fetched_at
         IN  IF days_old <= rcfg.fresh_days THEN rcfg.fresh_factor
             ELSE IF days_old <= rcfg.recent_days THEN rcfg.recent_factor
             ELSE IF days_old <= rcfg.semi_old_days THEN rcfg.semi_old_factor
             ELSE rcfg.old_factor

\* the pair (trending_score, components)
calculate_trending_score(cfg, in) ==
    LET character == in.character
        base_score == calculate_base_score(cfg, character.favourites)
        growth_multiplier == calculate_growth_multiplier(cfg, in.db, in.today)
        series_boost == calculate_series_boost(cfg, character, in.today)
        gender_boost == calculate_gender_boost(cfg, character.gender)
        role_boost == calculate_role_boost(cfg, character)
        recency_factor == calculate_recency_factor(cfg, character.last_fetched_at, in.today)
        trending_score ==
            RMul(RMul(RMul(RMul(RMul(base_score, growth_multiplier), series_boost),
                           gender_boost), role_boost), recency_factor)
    IN  IF Raised \in {gender_boost, role_boost}
        THEN [trending_score |-> base_score,
              components |-> [base_score |-> base_score, error |-> TRUE]]
        ELSE [trending_score |-> trending_score,
              components |->
                 [base_score |-> base_score,
                  growth_multiplier |-> growth_multiplier,
                  series_boost |-> series_boost,
                  gender_boost |-> gender_boost,
                  role_boost |-> role_boost,
                  recency_factor |-> recency_factor,
                  final_score |-> trending_score]]

----------------------------------------------------------------------------
\* processors/aggregation_processor.py
\*
\* A timestamp is [day, time]: the day counted from Monday 1 January 2024
\* and the time of day.  A historical entry is [timestamp, entity_id,
\* entity_type, trending_score, popularity_rank, aggregation_period,
\* data_points].  The score_std of an aggregate, a square root, is left out
\* of its metadata.

\* snapshots handed to one rollup or one retention pruning
MaxSnapshots == 2

\* the first days of the months of 2024 and 2025 and of January 2026
MonthStarts ==
    <<0, 31, 60, 91, 121, 152, 182, 213, 244, 274, 305, 335,
      366, 397, 425, 456, 486, 517, 547, 578, 609, 639, 670, 700, 731>>

\* the first day of the month the day lies in: datetime.replace(day=1)
MonthStart(day) ==
    MonthStarts[CHOOSE i \in 1..(Len(MonthStarts) - 1) :
                    MonthStarts[i] <= day /\ day < MonthStarts[i + 1]]

\* the first day of the year the day lies in: datetime.replace(month=1, day=1)
YearStart(day) ==
    MonthStarts[CHOOSE i \in {1, 13} : MonthStarts[i] <= day /\ day < MonthStarts[i + 12]]

_get_time_window(timestamp, days) ==
    CASE days = 7 -> [timestamp EXCEPT !.day = @ - (timestamp.day % 7)]
      [] days = 30 -> [timestamp EXCEPT !.day = MonthStart(@)]
      [] days = 365 -> [timestamp EXCEPT !.day = YearStart(@)]
      [] OTHER ->
            [timestamp EXCEPT !.day = @ - ((timestamp.day - YearStart(timestamp.day) + 1) % days)]

\* the keys of grouped_data: entity and time window, in the order the two
\* loops visit them (entities by first appearance, then windows by first
\* appearance)
GroupKey(item, days) == <<item.entity_id, _get_time_window(item.timestamp, days)>>

FirstIndex(data, Test(_)) ==
    CHOOSE i \in DOMAIN data : Test(data[i]) /\ \A j \in DOMAIN data : Test(data[j]) => i <= j

RECURSIVE GroupKeys(_, _, _)
GroupKeys(data, days, keys) ==
    IF keys = {} THEN <<>>
    ELSE LET EntityAt(key) == FirstIndex(data, LAMBDA item : item.entity_id = key[1])
             KeyAt(key) == FirstIndex(data, LAMBDA item : GroupKey(item, days) = key)
             first == CHOOSE key \in keys :
                        \A other \in keys :
                            \/ EntityAt(key) < EntityAt(other)
                            \/ EntityAt(key) = EntityAt(other) /\ KeyAt(key) <= KeyAt(other)
         IN  <<first>> \o GroupKeys(data, days, keys \ {first})

_aggregate_data(data, target_period, days) ==
    LET keys == GroupKeys(data, days, {GroupKey(data[i], days) : i \in DOMAIN data})
        Entry(key) ==
            LET items == {i \in DOMAIN data : GroupKey(data[i], days) = key}
                scores == [i \in DOMAIN data |-> data[i].trending_score]
                ranks == [i \in DOMAIN data |-> data[i].popularity_rank]
                points == [i \in DOMAIN data |-> data[i].data_points]
                representative ==
                    CHOOSE i \in items :
                        \A j \in items :
                            \/ data[j].timestamp.day < data[i].timestamp.day
                            \/ /\ data[j].timestamp.day = data[i].timestamp.day
                               /\ data[j].timestamp.time < data[i].timestamp.time
                            \/ data[j].timestamp = data[i].timestamp /\ i <= j
                first == CHOOSE i \in items : \A j \in items : i <= j
            IN  [timestamp |-> key[2],
                 entity_id |-> key[1],
                 entity_type |-> data[representative].entity_type,
                 trending_score |-> Rat(SumOver(scores, items), Cardinality(items)),
                 popularity_rank |-> SumOver(ranks, items) \div Cardinality(items),
                 aggregation_period |-> target_period,
                 data_points |-> SumOver(points, items),
                 metadata |->
                    [score_min |-> CHOOSE s \in {scores[i] : i \in items} :
                                      \A i \in items : s <= scores[i],
                     score_max |-> CHOOSE s \in {scores[i] : i \in items} :
                                      \A i \in items : s >= scores[i],
                     original_entries |-> Cardinality(items),
                     aggregated_from |-> data[first].aggregation_period]]
    IN  [k \in DOMAIN keys |-> Entry(keys[k])]

aggregate_daily_to_weekly(daily_data) == _aggregate_data(daily_data, "weekly", 7)
aggregate_weekly_to_monthly(weekly_data) == _aggregate_data(weekly_data, "monthly", 30)
aggregate_monthly_to_yearly(monthly_data) == _aggregate_data(monthly_data, "yearly", 365)

\* (now - timestamp).days
AgeDays(at, timestamp) ==
    (at.day - timestamp.day) - (IF at.time < timestamp.time THEN 1 ELSE 0)

\* the retention of the entry's period, in days
RetentionDays(retention, period) ==
    CASE period = "daily" -> retention.daily_retention_days
      [] period = "weekly" -> retention.weekly_retention_weeks * 7
      [] period = "monthly" -> retention.monthly_retention_months * 30
      [] period = "yearly" -> retention.yearly_retention_years * 365

\* should_keep; an entry of no known period is dropped and not counted
ShouldKeep(retention, at, entry) ==
    /\ entry.aggregation_period \in {"daily", "weekly", "monthly", "yearly"}
    /\ AgeDays(at, entry.timestamp) <= RetentionDays(retention, entry.aggregation_period)

\* the pair (kept_data, cleanup_stats)
cleanup_old_data(retention, at, historical_data) ==
    LET Removed(period) ==
            Cardinality({i \in DOMAIN historical_data :
                            /\ historical_data[i].aggregation_period = period
                            /\ ~ShouldKeep(retention, at, historical_data[i])})
    IN  [kept_data |-> SelectSeq(historical_data,
                                 LAMBDA entry : ShouldKeep(retention, at, entry)),
         cleanup_stats |-> [daily |-> Removed("daily"), weekly |-> Removed("weekly"),
                            monthly |-> Removed("monthly"), yearly |-> Removed("yearly")]]

----------------------------------------------------------------------------
\* Trending score calculations called on their own, on any arguments

LimitValues == {5 * k : k \in 0..MaxLimitStep}

\* arguments of calculate_total_multiplier and get_boost_breakdown, with the
\* limits section of the configuration they run under
BoostInputs ==
    {[kind |-> "boosts",
      limits |-> [min_total_multiplier |-> lo, max_total_multiplier |-> hi],
      gender |-> g, favourites |-> f, status |-> st, season_year |-> y,
      format |-> fm, role |-> r, series_name |-> n] :
        lo \in LimitValues, hi \in LimitValues,
        g \in {"", "Female", "Other"}, f \in {0, 10000, 30000},
        st \in {"", "RELEASING", "FINISHED"}, y \in {NULL, 2025, 2021, 2000},
        fm \in {"", "TV"}, r \in {"", "MAIN", "BACKGROUND"},
        n \in {<<>>, <<"O", "n", "e">>, <<"x">>}}

\* a media appearance of a character handed to the processor
Appearance(role, season_year, average_score) ==
    [role |-> role, season_year |-> season_year, average_score |-> average_score]

\* arguments of TrendingProcessor.calculate_character_trending_score; the year
\* is the one datetime.now() reports
ProcessorInputs ==
    {[kind |-> "processor",
      character |-> [character_id |-> 1, favourites |-> f, gender |-> g,
                     media_appearances |-> a],
      related_media |-> rm, historical_data |-> h, current_year |-> 2025] :
        f \in {1, 1000, 1000000}, g \in {"", "FEMALE", "MALE"},
        a \in {<<>>,
               <<Appearance("MAIN", 2025, 90)>>,
               <<Appearance("MAIN", 2025, 90), Appearance("MAIN", 2024, 86)>>,
               <<Appearance("SUPPORTING", 2010, NULL)>>,
               <<Appearance("BACKGROUND", 2024, 72), Appearance("", NULL, 60)>>,
               <<Appearance("MAIN", Malformed, 90)>>,
               <<Appearance("BACKGROUND", 2025, Malformed)>>},
        rm \in {<<>>, <<[season_year |-> 2025, average_score |-> 88]>>},
        h \in {<<>>,
               <<[timestamp |-> 1, trending_score |-> 40]>>,
               <<[timestamp |-> 2, trending_score |-> 50],
                 [timestamp |-> 1, trending_score |-> 40]>>,
               <<[timestamp |-> 1, trending_score |-> 40],
                 [timestamp |-> 2, trending_score |-> 50],
                 [timestamp |-> 3, trending_score |-> 80]>>,
               <<[timestamp |-> 1, trending_score |-> 80],
                 [timestamp |-> 2, trending_score |-> 50],
                 [timestamp |-> 3, trending_score |-> 40]>>}}

\* configurations the calculator runs under: the default one, a file without
\* the "unknown" gender boost, a file without the BACKGROUND role boost
CalculatorConfigs ==
    {DefaultTrendingConfig,
     [DefaultTrendingConfig EXCEPT !.gender_boosts = [FEMALE |-> Rat(14, 10), MALE |-> One]],
     [DefaultTrendingConfig EXCEPT !.role_boosts = [MAIN |-> One, SUPPORTING |-> Rat(13, 10)]],
     [DefaultTrendingConfig EXCEPT !.growth_calculation.min_multiplier = Rat(15, 10)],
     [DefaultTrendingConfig EXCEPT !.growth_calculation.max_multiplier = Rat(5, 10)]}

\* the favourites history of a character, recorded_at being a day number
History(rows) ==
    [i \in DOMAIN rows |-> [recorded_at |-> rows[i][1], favourites |-> rows[i][2]]]

\* states of the database on day 100: no character row; history at every
\* look-back point; the same with a failing session; one row younger than
\* every look-back point; rows without favourites at 7 and 30 days and a
\* small value at 90 days; a fall of the favourites; no history at all
CalculatorDatabases ==
    {[current_favourites |-> NULL, history |-> <<>>, fails |-> FALSE],
     [current_favourites |-> 999, history |-> History(<<<<90, 900>>, <<10, 500>>>>),
      fails |-> FALSE],
     [current_favourites |-> 999, history |-> History(<<<<90, 900>>, <<10, 500>>>>),
      fails |-> TRUE],
     [current_favourites |-> 999, history |-> History(<<<<95, 900>>>>), fails |-> FALSE],
     [current_favourites |-> 999, history |-> History(<<<<50, 0>>, <<5, 10>>>>),
      fails |-> FALSE],
     [current_favourites |-> 9,
      history |-> History(<<<<90, 900>>, <<50, 900>>, <<5, 900>>>>), fails |-> FALSE],
     [current_favourites |-> 999, history |-> <<>>, fails |-> FALSE]}

\* a media appearance of a character row
CharacterMedia(role, status, start_date, end_date) ==
    [character_role |-> role,
     media |-> [status |-> status, start_date |-> start_date, end_date |-> end_date]]

\* arguments of TrendingScoreCalculator.calculate_trending_score on day 100,
\* with the database it reads
CalculatorInputs ==
    {[kind |-> "calculator", cfg |-> c,
      character |-> [id |-> 1, favourites |-> f, gender |-> g, last_fetched_at |-> l,
                     media_appearances |-> a],
      db |-> d, today |-> 100] :
        c \in CalculatorConfigs, f \in {9, 999}, g \in {"", "FEMALE"},
        l \in {NULL, 100, 60},
        a \in {<<>>,
               <<CharacterMedia("MAIN", "RELEASING", 90, NULL)>>,
               <<CharacterMedia("BACKGROUND", "RELEASING", NULL, NULL)>>,
               <<CharacterMedia("BACKGROUND", "FINISHED", NULL, 0),
                 CharacterMedia("SUPPORTING", "HIATUS", NULL, NULL)>>},
        d \in CalculatorDatabases}

\* the lists of at most MaxSnapshots entries
SnapshotLists(entries) == UNION {[1..n -> entries] : n \in 0..MaxSnapshots}

HistoricalEntry(entity_id, day, time, period) ==
    [timestamp |-> [day |-> day, time |-> time], entity_id |-> entity_id,
     entity_type |-> "character", trending_score |-> 50 + (day % 3),
     popularity_rank |-> entity_id, aggregation_period |-> period, data_points |-> 1]

\* arguments of the three rollups: daily snapshots of two entities taken on
\* Monday 1 and Monday 8 January 2024, 1 February 2024 and 1 January 2025,
\* and one of the first entity taken later on Monday 1 January 2024
RollupInputs ==
    {[kind |-> "rollup", days |-> days, data |-> data] :
        days \in {7, 30, 365},
        data \in SnapshotLists({HistoricalEntry(e, d, 0, "daily") :
                                    e \in {1, 2}, d \in {0, 7, 31, 366}}
                               \cup {HistoricalEntry(1, 0, 1, "daily")})}

\* AggregationProcessor.__init__: the retention periods of the configuration
RetentionConfigs ==
    {[daily_retention_days |-> 30, weekly_retention_weeks |-> 52,
      monthly_retention_months |-> 24, yearly_retention_years |-> 5],
     [daily_retention_days |-> 1, weekly_retention_weeks |-> 1,
      monthly_retention_months |-> 1, yearly_retention_years |-> 1]}

\* arguments of cleanup_old_data on 25 January 2025: daily and weekly entries
\* of two entities stamped 1 January 2024 and 15 January 2025
CleanupInputs ==
    {[kind |-> "cleanup", retention |-> r, at |-> [day |-> 390, time |-> 0], data |-> data] :
        r \in RetentionConfigs,
        data \in SnapshotLists({HistoricalEntry(e, d, 0, p) :
                                    e \in {1, 2}, d \in {0, 380},
                                    p \in {"daily", "weekly"}})}

----------------------------------------------------------------------------
\* Start-up: each component loads its configuration file

\* TrendingConfig._load_config: a missing file raises FileNotFoundError, one
\* that is not JSON raises ValueError; what parses is returned as it is
TrendingConfig_load_config(file) ==
    IF ~file.exists
    THEN Raised
    ELSE IF ~file.parses THEN Raised ELSE file.content

\* TrendingScoreCalculator._load_trending_config: a missing file and every
\* exception end in _get_default_config(); what parses is returned as it is
_load_trending_config(file) ==
    IF file.exists /\ file.parses THEN file.content ELSE DefaultTrendingConfig

\* the sections a component reads by subscript when it evaluates an entity
SectionsRead(component) ==
    CASE component = "LifecycleRulesManager" -> {"periods", "thresholds", "scoring"}
      [] component = "TrendingConfig" ->
            {"gender_boosts", "popularity_boosts", "status_boosts", "limits"}
      [] component = "TrendingScoreCalculator" ->
            {"base_score", "growth_calculation", "gender_boosts", "role_boosts"}

\* the dictionary without one of its keys
Without(dict, key) == [k \in DOMAIN dict \ {key} |-> dict[k]]

\* the complete configuration file of a component
CompleteFile(component) ==
    CASE component = "LifecycleRulesManager" -> LoadedConfig
      [] component = "TrendingConfig" ->
            [k \in DOMAIN BoostSections \cup {"limits"} |->
                IF k = "limits"
                THEN [min_total_multiplier |-> 5, max_total_multiplier |-> 30]
                ELSE BoostSections[k]]
      [] component = "TrendingScoreCalculator" -> DefaultTrendingConfig

\* the configuration file found at start-up
FileFound(component, state) ==
    [state |-> state,
     exists |-> state # "missing",
     parses |-> state \in {"incomplete", "complete"},
     content |-> CASE state = "complete" -> CompleteFile(component)
                   [] state = "incomplete" ->
                        Without(CompleteFile(component),
                                IF component = "LifecycleRulesManager"
                                THEN "thresholds" ELSE "gender_boosts")
                   [] OTHER -> <<>>]

\* the constructor of a component: Raised, or the configuration it starts with
Construct(component, file) ==
    CASE component = "LifecycleRulesManager" ->
            _load_config(DEFAULT_CONFIG, "lifecycle_config.json", file).merged
      [] component = "TrendingConfig" -> TrendingConfig_load_config(file)
      [] component = "TrendingScoreCalculator" -> _load_trending_config(file)

\* started is whether the constructor returned; key_error is whether the
\* first evaluation then fails on a section the configuration lacks
start_up(component, file) ==
    LET loaded == Construct(component, file)
    IN  IF loaded = Raised
        THEN [started |-> FALSE, config |-> loaded, key_error |-> FALSE]
        ELSE [started |-> TRUE, config |-> loaded,
              key_error |-> ~(SectionsRead(component) \subseteq DOMAIN loaded)]

\* favourite counts a base score is asked for
BaseFavourites == (0 .. 11) \cup {99, 999}

\* the calculator under the default base_score section and under files with
\* another floor or multiplier; the processor on a character with and
\* without a main role
BaseScoreInputs ==
    {[kind |-> "base_score", calculator |-> "TrendingScoreCalculator",
      cfg |-> [DefaultTrendingConfig EXCEPT !.base_score.min_favourites = b[1],
                                            !.base_score.multiplier = b[2]],
      favourites |-> f] :
        b \in {<<1, 100>>, <<0, 100>>, <<5, 100>>, <<1, 0>>}, f \in BaseFavourites}
    \cup {[kind |-> "base_score", calculator |-> "TrendingProcessor",
           character |-> [favourites |-> f, media_appearances |-> ma],
           favourites |-> f] :
            f \in BaseFavourites, ma \in {<<>>, <<[role |-> "MAIN"]>>}}

StartUpInputs ==
    {[kind |-> "start_up", component |-> c, file |-> FileFound(c, st)] :
        c \in {"LifecycleRulesManager", "TrendingConfig", "TrendingScoreCalculator"},
        st \in {"missing", "unreadable", "incomplete", "complete"}}

\* the argument sets of the operations, one set per kind of call
TrendingInputs ==
    {BoostInputs, ProcessorInputs, CalculatorInputs, RollupInputs, CleanupInputs,
     StartUpInputs, BaseScoreInputs}

TrendingInit ==
    /\ config = LoadedConfig
    /\ now = 0
    /\ media = [s \in Series |-> MediaRow("RELEASING", ACTIVE_TRACKING, NULL, Inactive)]
    /\ pc = [p \in Tasks |-> "idle"]
    /\ series_list = [p \in Tasks |-> <<>>]
    /\ series_in = NoSeries
    /\ decision_out = NoDecision
    /\ manual_ops = 0
    /\ execution_stats = [e \in Engines |-> InitialStats]
    /\ frame = [p \in Tasks |-> NoFrame]
    /\ failures = 0
    /\ interrupted = 0
    /\ \E inputs \in TrendingInputs : trending_in \in inputs
    /\ trending_out = NoTrendingResult
    /\ default_config = StartUp.DEFAULT_CONFIG

CalculateTotalMultiplier ==
    /\ trending_in.kind = "boosts"
    /\ trending_out = NoTrendingResult
    /\ trending_out' =
          [op |-> "calculate_total_multiplier",
           value |-> calculate_total_multiplier(LoadedTrendingConfig(trending_in.limits),
                                                trending_in)]
    /\ UNCHANGED <<default_config, config, now, media, pc, series_list, series_in, decision_out,
                   manual_ops, execution_stats, frame, failures, interrupted,
                   trending_in>>

GetBoostBreakdown ==
    /\ trending_in.kind = "boosts"
    /\ trending_out = NoTrendingResult
    /\ trending_out' =
          [op |-> "get_boost_breakdown",
           value |-> get_boost_breakdown(LoadedTrendingConfig(trending_in.limits),
                                         trending_in)]
    /\ UNCHANGED <<default_config, config, now, media, pc, series_list, series_in, decision_out,
                   manual_ops, execution_stats, frame, failures, interrupted,
                   trending_in>>

CalculateCharacterTrendingScore ==
    /\ trending_in.kind = "processor"
    /\ trending_out = NoTrendingResult
    /\ trending_out' =
          [op |-> "calculate_character_trending_score",
           value |-> calculate_character_trending_score(ProcessorConfig, trending_in)]
    /\ UNCHANGED <<default_config, config, now, media, pc, series_list, series_in, decision_out,
                   manual_ops, execution_stats, frame, failures, interrupted,
                   trending_in>>

CalculateTrendingScore ==
    /\ trending_in.kind = "calculator"
    /\ trending_out = NoTrendingResult
    /\ trending_out' =
          [op |-> "calculate_trending_score",
           value |-> calculate_trending_score(trending_in.cfg, trending_in)]
    /\ UNCHANGED <<default_config, config, now, media, pc, series_list, series_in, decision_out,
                   manual_ops, execution_stats, frame, failures, interrupted,
                   trending_in>>

AggregateData ==
    /\ trending_in.kind = "rollup"
    /\ trending_out = NoTrendingResult
    /\ trending_out' =
          [op |-> "_aggregate_data",
           value |-> CASE trending_in.days = 7 -> aggregate_daily_to_weekly(trending_in.data)
                       [] trending_in.days = 30 -> aggregate_weekly_to_monthly(trending_in.data)
                       [] trending_in.days = 365 ->
                             aggregate_monthly_to_yearly(trending_in.data)]
    /\ UNCHANGED <<default_config, config, now, media, pc, series_list, series_in, decision_out,
                   manual_ops, execution_stats, frame, failures, interrupted,
                   trending_in>>

CleanupOldData ==
    /\ trending_in.kind = "cleanup"
    /\ trending_out = NoTrendingResult
    /\ trending_out' =
          [op |-> "cleanup_old_data",
           value |-> cleanup_old_data(trending_in.retention, trending_in.at,
                                      trending_in.data)]
    /\ UNCHANGED <<default_config, config, now, media, pc, series_list, series_in, decision_out,
                   manual_ops, execution_stats, frame, failures, interrupted,
                   trending_in>>

ComponentStartUp ==
    /\ trending_in.kind = "start_up"
    /\ trending_out = NoTrendingResult
    /\ trending_out' =
          [op |-> "start_up",
           value |-> start_up(trending_in.component, trending_in.file)]
    /\ UNCHANGED <<default_config, config, now, media, pc, series_list, series_in, decision_out,
                   manual_ops, execution_stats, frame, failures, interrupted,
                   trending_in>>

\* the base score of either calculator for the favourites given
BaseScore(in, favourites) ==
    IF in.calculator = "TrendingScoreCalculator"
    THEN calculate_base_score(in.cfg, favourites)
    ELSE _calculate_base_character_score([in.character EXCEPT !.favourites = favourites])

CalculateBaseScore ==
    /\ trending_in.kind = "base_score"
    /\ trending_out = NoTrendingResult
    /\ trending_out' =
          [op |-> "calculate_base_score",
           value |-> BaseScore(trending_in, trending_in.favourites)]
    /\ UNCHANGED <<default_config, config, now, media, pc, series_list, series_in, decision_out,
                   manual_ops, execution_stats, frame, failures, interrupted,
                   trending_in>>

TrendingNext ==
    \/ CalculateTotalMultiplier
    \/ GetBoostBreakdown
    \/ CalculateCharacterTrendingScore
    \/ CalculateTrendingScore
    \/ AggregateData
    \/ CleanupOldData
    \/ ComponentStartUp
    \/ CalculateBaseScore

TrendingSpec == TrendingInit /\ [][TrendingNext]_vars

----------------------------------------------------------------------------
\* The boost pipeline

\* the limits of the configuration the call ran under, in product units
MinTotal == ProductUnits(trending_in.limits.min_total_multiplier)
MaxTotal == ProductUnits(trending_in.limits.max_total_multiplier)
\* the breakdown of the arguments of the call
Breakdown == get_boost_breakdown(LoadedTrendingConfig(trending_in.limits), trending_in)

\* what C18 says of a returned total multiplier and a returned breakdown
TotalWithinLimits ==
    /\ trending_out.op = "calculate_total_multiplier" =>
          /\ MinTotal <= trending_out.value
          /\ trending_out.value <= MaxTotal
          /\ trending_out.value = Breakdown.capped_total
    /\ trending_out.op = "get_boost_breakdown" =>
          /\ trending_out.value.raw_total =
                trending_out.value.gender_boost * trending_out.value.popularity_boost
                * trending_out.value.status_boost * trending_out.value.recency_boost
                * trending_out.value.format_boost * trending_out.value.role_boost
                * trending_out.value.keywords_boost
          /\ MinTotal <= trending_out.value.capped_total
          /\ trending_out.value.capped_total <= MaxTotal

\* C18 (as stated): for all boost inputs and every limits configuration the
\* total multiplier returned by calculate_total_multiplier lies within
\* [min_total_multiplier, max_total_multiplier] and equals the capped_total of
\* get_boost_breakdown, whose raw_total is the unclamped product of the boosts.
C18_Original == TotalWithinLimits

\* C18 (amended): the same for every limits configuration whose
\* min_total_multiplier does not exceed its max_total_multiplier; under a
\* configuration with the two limits inverted both functions return
\* min_total_multiplier, and raw_total is the unclamped product either way.
C18_WithinOrderedLimits ==
    /\ trending_in.kind = "boosts"
       /\ trending_in.limits.min_total_multiplier <= trending_in.limits.max_total_multiplier
          => TotalWithinLimits
    /\ trending_in.kind = "boosts"
       /\ trending_in.limits.min_total_multiplier > trending_in.limits.max_total_multiplier
          => /\ trending_out.op = "calculate_total_multiplier" =>
                   /\ trending_out.value = MinTotal
                   /\ trending_out.value = Breakdown.capped_total
             /\ trending_out.op = "get_boost_breakdown" =>
                   /\ trending_out.value.capped_total = MinTotal
                   /\ trending_out.value.raw_total =
                         trending_out.value.gender_boost
                         * trending_out.value.popularity_boost
                         * trending_out.value.status_boost
                         * trending_out.value.recency_boost
                         * trending_out.value.format_boost
                         * trending_out.value.role_boost
                         * trending_out.value.keywords_boost

\* C18 witness: a total multiplier returned under ordered limits for
\* arguments whose raw product exceeds the upper limit
C18_Witness ==
    /\ trending_out.op = "calculate_total_multiplier"
    /\ trending_in.limits.min_total_multiplier < trending_in.limits.max_total_multiplier
    /\ Breakdown.raw_total > MaxTotal
    /\ trending_out.value = MaxTotal

----------------------------------------------------------------------------
\* Trending score records

\* a character score record was returned by the processor
ProcessorReturned == trending_out.op = "calculate_character_trending_score"
\* a score and its components were returned by the calculator
CalculatorReturned == trending_out.op = "calculate_trending_score"

\* the product of the multipliers a processor record holds
RecordedProduct(record) ==
    RMul(RMul(RMul(RMul(record.gender_boost, record.recency_boost),
                   record.quality_boost), record.role_boost), record.momentum_boost)

\* the product of the multipliers a components dict holds, 1 for the ones
\* it does not hold
ComponentsProduct(components) ==
    LET Recorded(key) == IF key \in DOMAIN components THEN components[key] ELSE One
    IN  RMul(RMul(RMul(RMul(Recorded("growth_multiplier"), Recorded("series_boost")),
                       Recorded("gender_boost")), Recorded("role_boost")),
             Recorded("recency_factor"))

\* C19 (as stated): every trending score record satisfies final_score ==
\* base_score * total_multiplier, total_multiplier being the product of the
\* multipliers recorded in the same record (neither score calculator reads a
\* limits section, so no clamp applies to the product).
C19_Original ==
    /\ ProcessorReturned =>
          trending_out.value.final_score =
             RMul(trending_out.value.base_score, RecordedProduct(trending_out.value))
    /\ CalculatorReturned =>
          trending_out.value.trending_score =
             RMul(trending_out.value.components.base_score,
                  ComponentsProduct(trending_out.value.components))

\* the boosts the processor computes for the arguments of the call
ComputedGender == _calculate_gender_boost(ProcessorConfig, trending_in.character.gender)
ComputedRecency ==
    _calculate_character_recency_boost(trending_in.character, trending_in.related_media,
                                       trending_in.current_year)
ComputedQuality ==
    _calculate_character_quality_boost(trending_in.character, trending_in.related_media)
ComputedRole == _calculate_role_boost(trending_in.character)
ComputedMomentum ==
    IF trending_in.historical_data # <<>>
    THEN _calculate_historical_momentum(trending_in.historical_data)
    ELSE One

\* the recorded boost is the computed one, 1.0 if computing it raised
NeutralIfRaised(recorded, computed) ==
    recorded = IF computed = Raised THEN One ELSE computed

\* exactly one boost function of the processor raises for the arguments
OneProcessorBoostRaises ==
    (ComputedRecency = Raised) # (ComputedQuality = Raised)

\* the boosts of the calculator whose exception reaches calculate_trending_score
CalculatorGender == calculate_gender_boost(trending_in.cfg, trending_in.character.gender)
CalculatorRole == calculate_role_boost(trending_in.cfg, trending_in.character)

\* the value a components dict must hold under key for a computed boost
Holds(components, key, computed) ==
    /\ key \in DOMAIN components
    /\ NeutralIfRaised(components[key], computed)

\* C20 (as stated): when one boost function raises during an evaluation, the
\* evaluation completes, that boost alone is replaced by 1.0, every other
\* boost keeps its computed value, and the fault is recorded in the result.
C20_Original ==
    /\ ProcessorReturned /\ OneProcessorBoostRaises =>
          /\ trending_out.value.base_score =
                _calculate_base_character_score(trending_in.character)
          /\ NeutralIfRaised(trending_out.value.gender_boost, ComputedGender)
          /\ NeutralIfRaised(trending_out.value.recency_boost, ComputedRecency)
          /\ NeutralIfRaised(trending_out.value.quality_boost, ComputedQuality)
          /\ NeutralIfRaised(trending_out.value.role_boost, ComputedRole)
          /\ NeutralIfRaised(trending_out.value.momentum_boost, ComputedMomentum)
          /\ trending_out.value.calculation_details.error
    /\ CalculatorReturned /\ (CalculatorGender = Raised) # (CalculatorRole = Raised) =>
          LET components == trending_out.value.components
          IN  /\ Holds(components, "growth_multiplier",
                       calculate_growth_multiplier(trending_in.cfg, trending_in.db,
                                                   trending_in.today))
              /\ Holds(components, "series_boost",
                       calculate_series_boost(trending_in.cfg, trending_in.character,
                                              trending_in.today))
              /\ Holds(components, "gender_boost", CalculatorGender)
              /\ Holds(components, "role_boost", CalculatorRole)
              /\ Holds(components, "recency_factor",
                       calculate_recency_factor(trending_in.cfg,
                                                trending_in.character.last_fetched_at,
                                                trending_in.today))
              /\ "error" \in DOMAIN components
    /\ CalculatorReturned /\ trending_in.db.fails
       /\ CalculatorGender # Raised /\ CalculatorRole # Raised =>
          "error" \in DOMAIN trending_out.value.components

----------------------------------------------------------------------------
\* Growth without history

\* the look-back windows of the growth calculation, in days
LookBackDays == {7, 30, 90}

\* the favourites the database holds for the look-back point, NULL if none
SnapshotAt(days) ==
    LET rows == {i \in DOMAIN trending_in.db.history :
                    trending_in.db.history[i].recorded_at <= trending_in.today - days}
    IN  IF rows = {} THEN NULL
        ELSE trending_in.db.history[
                CHOOSE i \in rows :
                    \A j \in rows : trending_in.db.history[j].recorded_at
                                       <= trending_in.db.history[i].recorded_at].favourites

\* the look-back point has a snapshot with a positive value
Usable(days) == SnapshotAt(days) # NULL /\ SnapshotAt(days) > 0

GrowthWeight(days) ==
    CASE days = 7 -> trending_in.cfg.growth_calculation.weight_7_days
      [] days = 30 -> trending_in.cfg.growth_calculation.weight_30_days
      [] days = 90 -> trending_in.cfg.growth_calculation.weight_90_days

\* 1 + the weighted growth over the usable look-back points only
GrowthOverUsable ==
    LET Part(days) ==
            IF Usable(days)
            THEN RMul(Rat(trending_in.db.current_favourites - SnapshotAt(days),
                          SnapshotAt(days)), GrowthWeight(days))
            ELSE Zero
    IN  RAdd(One, RAdd(RAdd(Part(7), Part(30)), Part(90)))

GrowthMin == trending_in.cfg.growth_calculation.min_multiplier
GrowthMax == trending_in.cfg.growth_calculation.max_multiplier

\* the growth multiplier of a returned components dict lies within the limits
GrowthWithinLimits ==
    /\ ~RLess(trending_out.value.components.growth_multiplier, GrowthMin)
    /\ ~RLess(GrowthMax, trending_out.value.components.growth_multiplier)

\* the calculator returned components that hold a growth multiplier
GrowthReturned ==
    /\ CalculatorReturned
    /\ "growth_multiplier" \in DOMAIN trending_out.value.components

----------------------------------------------------------------------------
\* Evaluations repeated at another time

\* the calculator's result for the same character, configuration and database
\* when the evaluation runs the given number of days later
EvaluatedLater(days) ==
    calculate_trending_score(trending_in.cfg,
                             [trending_in EXCEPT !.today = @ + days])

\* the processor's record for the same arguments when the evaluation runs
\* in the following year
EvaluatedNextYear ==
    calculate_character_trending_score(ProcessorConfig,
                                       [trending_in EXCEPT !.current_year = @ + 1])

\* C22 (as stated): two evaluations with identical metrics and identical
\* history produce the identical final score and the identical per-boost
\* breakdown, whenever each of them runs.
C22_Original ==
    /\ CalculatorReturned =>
          \A days \in {1, 30, 365} : EvaluatedLater(days) = trending_out.value
    /\ ProcessorReturned => EvaluatedNextYear = trending_out.value

----------------------------------------------------------------------------
\* Rollup and retention

\* the calendar week (Monday start), month or year a day lies in
CalendarPeriod(days, day) ==
    CASE days = 7 -> day \div 7
      [] days = 30 -> MonthStart(day)
      [] days = 365 -> YearStart(day)

\* C23 (as stated): snapshots of the same entity whose timestamps fall in the
\* same calendar week, month or year are folded into one aggregate, so the
\* output of a rollup has exactly one aggregate per entity per calendar period.
C23_Original ==
    trending_out.op = "_aggregate_data" =>
        Len(trending_out.value) =
            Cardinality({<<trending_in.data[i].entity_id,
                           CalendarPeriod(trending_in.days,
                                          trending_in.data[i].timestamp.day)>> :
                            i \in DOMAIN trending_in.data})

\* the entities of a list of entries
EntitiesOf(entries) == {entries[i].entity_id : i \in DOMAIN entries}

\* C24 (as stated): retention pruning keeps at least one record of every
\* entity that had a record in the input, whatever the ages and the retention
\* configuration.
C24_Original ==
    trending_out.op = "cleanup_old_data" =>
        EntitiesOf(trending_out.value.kept_data) = EntitiesOf(trending_in.data)

----------------------------------------------------------------------------
\* C25

\* C25 (as stated): a component whose configuration file is missing,
\* unreadable or lacks a required section does not start (its constructor
\* raises), so none starts with substituted defaults and none meets a missing
\* section only when it evaluates an entity.
C25_Original ==
    (trending_out.op = "start_up" /\ trending_in.file.state # "complete") =>
        ~trending_out.value.started

----------------------------------------------------------------------------
\* C26

\* the favourites below which the base score no longer falls: min_favourites
\* of the calculator, 1 in the processor
FavouritesFloor ==
    IF trending_in.calculator = "TrendingScoreCalculator"
    THEN trending_in.cfg.base_score.min_favourites
    ELSE 1

\* the returned base score is above zero, no higher than the base score of
\* any larger favourites, and at favourites 0 that of the floor
PositiveAndMonotonic ==
    /\ RLess(Zero, trending_out.value)
    /\ \A f2 \in BaseFavourites :
            trending_in.favourites <= f2 =>
                ~RLess(BaseScore(trending_in, f2), trending_out.value)
    /\ trending_in.favourites = 0 =>
            trending_out.value = BaseScore(trending_in, FavouritesFloor)

----------------------------------------------------------------------------
\* C27

\* DEFAULT_CONFIG as written in the class body, deep-merged with new_config
MergedWithWrittenDefault(new_config) == deep_merge(DEFAULT_CONFIG, new_config, <<>>)

\* C27 (as stated): every update_config(new_config) leaves as the active
\* configuration DEFAULT_CONFIG, as written in the class body, deep-merged with
\* that new_config alone, and leaves DEFAULT_CONFIG itself as written.
C27_Original ==
    [][\A new_config \in NewConfigs :
            update_config(new_config) =>
                /\ config' = MergedWithWrittenDefault(new_config)
                /\ default_config' = DEFAULT_CONFIG]_vars

----------------------------------------------------------------------------
\* C28

\* the series listed by the query that pass p runs in this step
Selected(p) == {series_list'[p][i].id : i \in DOMAIN series_list'[p]}

\* more than grace_period_days have passed since grace_period_start of s
GraceWindowOver(s) ==
    /\ media[s].grace_period_start # NULL
    /\ media[s].grace_period_start < now - config.periods.grace_period_days

\* C28: the query of an evaluation pass lists a series in extended_grace
\* exactly when more than grace_period_days have passed since its
\* grace_period_start, the window it applies to grace_period;
\* extended_grace_days plays no part.
C28_SameWindow ==
    [][\A p \in Passes :
            (FetchStep(p) /\ pc'[p] \in {"evaluate", "cleanup"}) =>
                \A s \in Series :
                    media[s].lifecycle_stage \in GraceStages =>
                        (s \in Selected(p) <=> GraceWindowOver(s))]_vars

\* a pass has listed a series in extended_grace whose grace_period_days are
\* over and whose extended_grace_days are not
C28_Witness ==
    \E p \in Passes :
        /\ pc[p] = "evaluate"
        /\ series_list[p] # <<>>
        /\ LET s == Head(series_list[p]).id
           IN  /\ media[s].lifecycle_stage = EXTENDED_GRACE
               /\ media[s].grace_period_start < now - config.periods.grace_period_days
               /\ media[s].grace_period_start >= now - config.periods.extended_grace_days

----------------------------------------------------------------------------
\* C29

----------------------------------------------------------------------------
\* C30

\* C30 (as stated): in the report a pass returns, series_evaluated and
\* decisions_made equal the number of entries of that pass's
\* grace_period_results.decisions, and archived_count + kept_active_count is
\* at most decisions_made, also when another pass on the same engine
\* overlaps with it.
C30_Original ==
    [][\A p \in Tasks :
         CleanupStep(p) =>
            LET report == Report(execution_stats[EngineOf(p)], frame[p], 0)
                decisions == Len(report.grace_period_results.decisions)
            IN  /\ report.series_evaluated = decisions
                /\ report.decisions_made = decisions
                /\ report.archived_count + report.kept_active_count
                        <= report.decisions_made]_vars

====
